---- MODULE Spec2Model ----
(***************************************************************************)
(* A model of the glue layer of fuzzy-phrase (src/glue/mod.rs): the        *)
(* FuzzyPhraseSetBuilder (insert, finish), the reader FuzzyPhraseSet       *)
(* (from_path) and its queries.  Tokens are strings, modelled as           *)
(* sequences of code points: 1 stands for the digit '1', 2 for the letter  *)
(* 'a' and 3 for the letter 'b', so that byte-wise order, string prefixes  *)
(* and edit distances are computed and not assumed.                        *)
(***************************************************************************)
EXTENDS Integers, Sequences, FiniteSets, TLC

VARIABLES
    phrases,          \* FuzzyPhraseSetBuilder.phrases: Vec<Vec<u32>>
    words_to_tmpids,  \* FuzzyPhraseSetBuilder.words_to_tmpids: BTreeMap<String, u32>
    inserted,         \* history: the phrases handed to insert(), as given
    disk,             \* the artifacts finish() writes into the directory
    reader,           \* the FuzzyPhraseSet that from_path() constructs
    pc,               \* "building" -> "finished" -> "open" -> "answered"
    call,             \* the last query made on the reader
    ret,              \* what that query returned
    trace,            \* history: the word lookups and the phrase-set calls it made
    threads           \* the queries that run in parallel on the reader, with their locals

vars == <<phrases, words_to_tmpids, inserted, disk, reader, pc, call, ret, trace, threads>>

(***************************************************************************)
(* Bounds of the model.                                                    *)
(***************************************************************************)
MaxInserts == 2      \* number of insert() calls before finish()
MaxLen == 2          \* longest phrase inserted, and longest phrase of a multi query
MaxQueryLen == 3     \* longest phrase handed to a single query
MaxQueries == 2      \* longest query list handed to fuzzy_match_multi
MaxDist == 2         \* largest max_word_dist / max_phrase_dist a caller passes
MaxThreads == 2      \* queries that run in parallel on one reader

\* "1", "a", "ab": a token that is no letter, and two letter tokens, one a
\* string prefix of the other and at edit distance 1 of it.
Tokens == { <<1>>, <<2>>, <<2, 3>> }

RECURSIVE SeqsUpTo(_, _)
SeqsUpTo(S, n) ==
    IF n = 0 THEN { <<>> }
    ELSE LET shorter == SeqsUpTo(S, n - 1)
         IN  shorter \cup { Append(s, x) : s \in shorter, x \in S }

PhraseInputs == SeqsUpTo(Tokens, MaxLen)

QueryPhrases == SeqsUpTo(Tokens, MaxQueryLen)

(***************************************************************************)
(* Strings and vectors: the orderings and relations of the standard        *)
(* library that the code relies on.                                        *)
(***************************************************************************)
None == [tag |-> "None"]
Some(x) == [tag |-> "Some", val |-> x]

\* str::cmp / Vec<u32>::cmp: lexicographic order of two sequences of numbers
LexLess(a, b) ==
    \E k \in 1..Len(b) :
        /\ \A j \in 1..(k - 1) : j <= Len(a) /\ a[j] = b[j]
        /\ (k > Len(a) \/ a[k] < b[k])

StartsWith(s, p) ==
    /\ Len(p) <= Len(s)
    /\ \A j \in 1..Len(p) : s[j] = p[j]

\* slice::sort on a Vec<Vec<u32>>: ascending in the lexicographic order
RECURSIVE InsertSorted(_, _)
InsertSorted(s, x) ==
    IF s = <<>> THEN <<x>>
    ELSE IF LexLess(x, s[1]) THEN <<x>> \o s
    ELSE <<s[1]>> \o InsertSorted(Tail(s), x)

RECURSIVE SortVecs(_)
SortVecs(s) ==
    IF s = <<>> THEN <<>>
    ELSE InsertSorted(SortVecs(SubSeq(s, 1, Len(s) - 1)), s[Len(s)])

\* iteration order of a BTreeMap<String, _>: its keys, ascending
RECURSIVE SortedKeys(_)
SortedKeys(S) ==
    IF S = {} THEN <<>>
    ELSE LET least == CHOOSE x \in S : \A y \in S \ {x} : LexLess(x, y)
         IN  <<least>> \o SortedKeys(S \ {least})

Range(s) == { s[i] : i \in 1..Len(s) }

(***************************************************************************)
(* FuzzyPhraseSetBuilder                                                   *)
(***************************************************************************)
DefaultMetadata ==
    [index_type |-> "fuzzy_phrase_set", format_version |-> 1,
     fuzzy_enabled_scripts |-> <<"Latin", "Greek", "Cyrillic">>]

\* util::can_fuzzy_match: every code point of the word is of an enabled
\* script; here the letters are of the Latin script and the digit is not
CanFuzzyMatch(word) == \A i \in 1..Len(word) : word[i] >= 2

\* the loop of insert(): one word after the other gets the id it already has,
\* or the next temporary id; returns <<map, tmpid_phrase>>
RECURSIVE InsertWords(_, _, _)
InsertWords(map, tmpid_phrase, rest) ==
    IF rest = <<>> THEN <<map, tmpid_phrase>>
    ELSE LET word == rest[1]
             current_len == Cardinality(DOMAIN map)
             map2 == IF word \in DOMAIN map THEN map
                     ELSE [w \in DOMAIN map \cup {word} |->
                              IF w = word THEN current_len ELSE map[w]]
         IN  InsertWords(map2, Append(tmpid_phrase, map2[word]), Tail(rest))

Insert(phrase) ==
    /\ pc = "building"
    /\ Len(phrases) < MaxInserts
    /\ LET r == InsertWords(words_to_tmpids, <<>>, phrase)
       IN  /\ words_to_tmpids' = r[1]
           /\ phrases' = Append(phrases, r[2])
    /\ inserted' = inserted \cup {phrase}
    /\ UNCHANGED <<disk, reader, pc, call, ret, trace, threads>>

\* the words in the order finish() iterates over them
SortedWords(map) == SortedKeys(DOMAIN map)

\* a renumbering table that leaves every temporary id as it is
TmpidsToIdsUnsorted(map) == [t \in 0..(Cardinality(DOMAIN map) - 1) |-> t]

\* tmpids_to_ids, indexed from 0 as in the code
TmpidsToIds(map) ==
    LET words == SortedWords(map)
    IN  [t \in 0..(Cardinality(DOMAIN map) - 1) |->
            (CHOOSE i \in 1..Len(words) : map[words[i]] = t) - 1]

\* the phrases left with their temporary ids
RenumberKeepTmpids(ps, tmpids_to_ids) == ps

Renumber(ps, tmpids_to_ids) ==
    [k \in 1..Len(ps) |-> [j \in 1..Len(ps[k]) |-> tmpids_to_ids[ps[k][j]]]]

\* everything finish() hands to the three index builders and the metadata file
FinishOutput(map, ps) ==
    LET words == SortedWords(map)
        sorted == SortVecs(Renumber(ps, TmpidsToIds(map)))
    IN  [prefix_fst |-> words,
         fuzzy |-> { <<words[i], i - 1>> : i \in { j \in 1..Len(words) : CanFuzzyMatch(words[j]) } },
         phrase_fst |-> sorted,
         metadata |-> DefaultMetadata]

NoDisk == [prefix_fst |-> <<>>, fuzzy |-> {}, phrase_fst |-> <<>>, metadata |-> None]

Finish ==
    /\ pc = "building"
    /\ disk' = FinishOutput(words_to_tmpids, phrases)
    /\ phrases' = <<>>
    /\ words_to_tmpids' = << >>
    /\ pc' = "finished"
    /\ UNCHANGED <<inserted, reader, call, ret, trace, threads>>

(***************************************************************************)
(* FuzzyPhraseSet::from_path                                               *)
(***************************************************************************)
NoReader == [prefix_set |-> <<>>, phrase_set |-> {}, fuzzy_map |-> {}, word_list |-> <<>>]

\* Result of from_path: the reader, or the kind of the error
Opened(r) == [status |-> "ok", value |-> r]
Failed(kind) == [status |-> "err", error |-> kind]

\* the directory as the builder leaves it: empty before finish(), with the
\* four artifacts after it
Written(d) ==
    IF d.metadata = None
    THEN [kind |-> "dir", metadata |-> None, prefix_fst |-> None, phrase_fst |-> None,
          fuzzy |-> {}]
    ELSE [kind |-> "dir", metadata |-> Some(d.metadata), prefix_fst |-> Some(d.prefix_fst),
          phrase_fst |-> Some(d.phrase_fst), fuzzy |-> d.fuzzy]

\* a from_path that takes whatever descriptor it reads
from_path_any_metadata(directory) ==
    IF directory.kind # "dir" THEN Failed("NotFound")
    ELSE IF directory.metadata = None THEN Failed("NotFound")
    ELSE IF directory.prefix_fst = None THEN Failed("NotFound")
    ELSE IF directory.phrase_fst = None THEN Failed("NotFound")
    ELSE Opened([prefix_set |-> directory.prefix_fst.val,
                 phrase_set |-> Range(directory.phrase_fst.val),
                 fuzzy_map |-> directory.fuzzy,
                 word_list |-> directory.prefix_fst.val])

\* the checks of from_path in their order; the word list is the stream of
\* the prefix set
from_path(directory) ==
    IF directory.kind # "dir" THEN Failed("NotFound")
    ELSE IF directory.metadata = None THEN Failed("NotFound")
    ELSE IF directory.metadata.val # DefaultMetadata THEN Failed("InvalidData")
    ELSE IF directory.prefix_fst = None THEN Failed("NotFound")
    ELSE IF directory.phrase_fst = None THEN Failed("NotFound")
    ELSE Opened([prefix_set |-> directory.prefix_fst.val,
                 phrase_set |-> Range(directory.phrase_fst.val),
                 fuzzy_map |-> directory.fuzzy,
                 word_list |-> directory.prefix_fst.val])

FromPath ==
    /\ pc = "finished"
    /\ from_path(Written(disk)).status = "ok"
    /\ reader' = from_path(Written(disk)).value
    /\ pc' = "open"
    /\ UNCHANGED <<phrases, words_to_tmpids, inserted, disk, call, ret, trace, threads>>

(***************************************************************************)
(* The three indices the reader consults.  Their code is not in glue/: they *)
(* are modelled from the interfaces the design document gives them.        *)
(***************************************************************************)
\* QueryWord::new_full / QueryWord::new_prefix
Full(id, edit_distance) == [tag |-> "Full", id |-> id, edit_distance |-> edit_distance]
Prefix(lo, hi) == [tag |-> "Prefix", lo |-> lo, hi |-> hi]

IdsOf(r) == 0..(Len(r.word_list) - 1)

\* PrefixSet::get: the id of an indexed word
PrefixSetGet(r, word) ==
    IF \E id \in IdsOf(r) : r.prefix_set[id + 1] = word
    THEN Some(CHOOSE id \in IdsOf(r) : r.prefix_set[id + 1] = word)
    ELSE None

Min(S) == CHOOSE x \in S : \A y \in S : x <= y
Max(S) == CHOOSE x \in S : \A y \in S : y <= x

\* PrefixSet::get_prefix_range: the first and the last id, in the order of the
\* set, of the words that begin with the prefix
GetPrefixRange(r, prefix) ==
    LET hits == { id \in IdsOf(r) : StartsWith(r.prefix_set[id + 1], prefix) }
    IN  IF hits = {} THEN None ELSE Some(<<Min(hits), Max(hits)>>)

\* PhraseSet::contains on a phrase of Full words
PhraseSetContains(r, id_phrase) ==
    [k \in 1..Len(id_phrase) |-> id_phrase[k].id] \in r.phrase_set

\* one step of the phrase automaton: the id sequences that extend `ids` by
\* one word accepted by the query word `qw`
Steps(r, ids, qw) ==
    { p \in { SubSeq(q, 1, Len(ids) + 1) : q \in { q \in r.phrase_set : Len(q) > Len(ids) } } :
        /\ SubSeq(p, 1, Len(ids)) = ids
        /\ IF qw.tag = "Full" THEN p[Len(p)] = qw.id
           ELSE qw.lo <= p[Len(p)] /\ p[Len(p)] <= qw.hi }

\* the id sequences the automaton can be in after the query words of `path`
RECURSIVE Reached(_, _)
Reached(r, path) ==
    IF path = <<>> THEN { <<>> }
    ELSE UNION { Steps(r, ids, path[Len(path)]) :
                 ids \in Reached(r, SubSeq(path, 1, Len(path) - 1)) }

\* PhraseSet::contains_prefix: the query words lead somewhere in the automaton
PhraseSetContainsPrefix(r, id_phrase) ==
    /\ r.phrase_set # {}
    /\ Reached(r, id_phrase) # {}

(***************************************************************************)
(* FuzzyPhraseSet::contains, contains_prefix                               *)
(***************************************************************************)
Ok(v) == [status |-> "ok", value |-> v]

\* the loop of contains(): Some(id_phrase), or None at the first missing word
RECURSIVE ExactWords(_, _)
ExactWords(r, words) ==
    IF words = <<>> THEN Some(<<>>)
    ELSE LET got == PrefixSetGet(r, words[1])
         IN  IF got = None THEN None
             ELSE LET rest == ExactWords(r, Tail(words))
                  IN  IF rest = None THEN None
                      ELSE Some(<<Full(got.val, 0)>> \o rest.val)

contains(r, phrase) ==
    LET id_phrase == ExactWords(r, phrase)
    IN  IF id_phrase = None THEN Ok(FALSE)
        ELSE Ok(PhraseSetContains(r, id_phrase.val))

\* contains_prefix looking the last word up as a whole word
contains_prefix_exact_last(r, phrase) ==
    LET id_phrase == ExactWords(r, phrase)
    IN  IF id_phrase = None THEN Ok(FALSE)
        ELSE Ok(PhraseSetContainsPrefix(r, id_phrase.val))

contains_prefix(r, phrase) ==
    IF Len(phrase) > 0
    THEN LET last_idx == Len(phrase)
             front == ExactWords(r, SubSeq(phrase, 1, last_idx - 1))
             range == GetPrefixRange(r, phrase[last_idx])
         IN  IF front = None THEN Ok(FALSE)
             ELSE IF range = None THEN Ok(FALSE)
             ELSE Ok(PhraseSetContainsPrefix(r,
                        Append(front.val, Prefix(range.val[1], range.val[2]))))
    ELSE Ok(PhraseSetContainsPrefix(r, <<>>))

(***************************************************************************)
(* What a query does on the way to its answer: the words it looks up, in   *)
(* order, and the calls it makes on the phrase set, in order.              *)
(***************************************************************************)
NoTrace == [lookups |-> <<>>, walks |-> <<>>]

Lookup(fn, word) == [fn |-> fn, word |-> word]

PhraseSetCall(fn, V, D, ends_in_prefix) ==
    [fn |-> fn, V |-> V, D |-> D, ends_in_prefix |-> ends_in_prefix]

\* one call after another
ThenTrace(a, b) == [lookups |-> a.lookups \o b.lookups, walks |-> a.walks \o b.walks]

\* the words the loop of contains() hands to prefix_set.get: it stops at the
\* first word the prefix set does not hold
RECURSIVE WordsTried(_, _)
WordsTried(r, words) ==
    IF words = <<>> THEN <<>>
    ELSE IF PrefixSetGet(r, words[1]) = None THEN <<words[1]>>
    ELSE <<words[1]>> \o WordsTried(r, Tail(words))

ExactLookups(r, words) ==
    LET tried == WordsTried(r, words)
    IN  [k \in 1..Len(tried) |-> Lookup("prefix_set.get", tried[k])]

\* a contains() that hands the phrase set whatever ids it has found
contains_trace_eager(r, phrase) ==
    [lookups |-> ExactLookups(r, phrase),
     walks |-> << PhraseSetCall("contains", <<>>, 0, FALSE) >>]

contains_trace(r, phrase) ==
    LET id_phrase == ExactWords(r, phrase)
    IN  [lookups |-> ExactLookups(r, phrase),
         walks |-> IF id_phrase = None THEN <<>>
                   ELSE << PhraseSetCall("contains", id_phrase.val, 0, FALSE) >>]

contains_prefix_trace(r, phrase) ==
    IF Len(phrase) > 0
    THEN LET last_idx == Len(phrase)
             front == ExactWords(r, SubSeq(phrase, 1, last_idx - 1))
             range == GetPrefixRange(r, phrase[last_idx])
         IN  IF front = None
             THEN [lookups |-> ExactLookups(r, SubSeq(phrase, 1, last_idx - 1)),
                   walks |-> <<>>]
             ELSE [lookups |-> Append(ExactLookups(r, SubSeq(phrase, 1, last_idx - 1)),
                                      Lookup("prefix_set.get_prefix_range", phrase[last_idx])),
                   walks |-> IF range = None THEN <<>>
                             ELSE << PhraseSetCall("contains_prefix",
                                        Append(front.val, Prefix(range.val[1], range.val[2])),
                                        0, TRUE) >>]
    ELSE [lookups |-> <<>>, walks |-> << PhraseSetCall("contains_prefix", <<>>, 0, TRUE) >>]

(***************************************************************************)
(* FuzzyMap::lookup (modelled from its interface): the indexed words        *)
(* within the edit distance, with their distance, in id order.             *)
(***************************************************************************)
RemoveAt(s, k) == SubSeq(s, 1, k - 1) \o SubSeq(s, k + 1, Len(s))

\* one insertion, deletion, substitution or transposition of neighbours
OneEdit(a, b) ==
    \/ /\ Len(a) = Len(b)
       /\ \/ Cardinality({ k \in 1..Len(a) : a[k] # b[k] }) = 1
          \/ \E k \in 1..(Len(a) - 1) :
                /\ a[k] # a[k + 1]
                /\ b = [j \in 1..Len(a) |->
                          IF j = k THEN a[k + 1] ELSE IF j = k + 1 THEN a[k] ELSE a[j]]
    \/ /\ Len(a) = Len(b) + 1
       /\ \E k \in 1..Len(a) : RemoveAt(a, k) = b
    \/ /\ Len(b) = Len(a) + 1
       /\ \E k \in 1..Len(b) : RemoveAt(b, k) = a

\* the edit distance as far as the map, built for distance 1, can tell it:
\* 0, 1, or 2 for "further away"
EditDistance(a, b) == IF a = b THEN 0 ELSE IF OneEdit(a, b) THEN 1 ELSE 2

RECURSIVE FuzzyHitsFrom(_, _, _, _)
FuzzyHitsFrom(r, word, edit_distance, id) ==
    IF id >= Len(r.word_list) THEN <<>>
    ELSE LET dist == EditDistance(word, r.word_list[id + 1])
             hit == IF <<r.word_list[id + 1], id>> \in r.fuzzy_map /\ dist <= edit_distance
                    THEN <<[id |-> id, edit_distance |-> dist]>> ELSE <<>>
         IN  hit \o FuzzyHitsFrom(r, word, edit_distance, id + 1)

FuzzyMapLookup(r, word, edit_distance) == FuzzyHitsFrom(r, word, edit_distance, 0)

(***************************************************************************)
(* The word resolvers                                                      *)
(***************************************************************************)
\* a resolver that knows the fuzzy map only
get_nonterminal_fuzzy_only(r, word, edit_distance) ==
    LET fuzzy_results == FuzzyMapLookup(r, word, edit_distance)
    IN  IF Len(fuzzy_results) = 0 THEN None
        ELSE Some([k \in 1..Len(fuzzy_results) |->
                     Full(fuzzy_results[k].id, fuzzy_results[k].edit_distance)])

get_nonterminal_word_possibilities(r, word, edit_distance) ==
    IF CanFuzzyMatch(word)
    THEN LET fuzzy_results == FuzzyMapLookup(r, word, edit_distance)
         IN  IF Len(fuzzy_results) = 0 THEN None
             ELSE Some([k \in 1..Len(fuzzy_results) |->
                          Full(fuzzy_results[k].id, fuzzy_results[k].edit_distance)])
    ELSE LET got == PrefixSetGet(r, word)
         IN  IF got = None THEN None ELSE Some(<<Full(got.val, 0)>>)

\* a terminal resolver that keeps every fuzzy hit
get_terminal_keep_exact(r, word, edit_distance) ==
    LET range == GetPrefixRange(r, word)
        prefix_variants == IF range # None
                           THEN <<Prefix(range.val[1], range.val[2])>> ELSE <<>>
        hits == IF CanFuzzyMatch(word) THEN FuzzyMapLookup(r, word, edit_distance) ELSE <<>>
        last_variants == prefix_variants \o
                         [k \in 1..Len(hits) |-> Full(hits[k].id, hits[k].edit_distance)]
    IN  IF Len(last_variants) > 0 THEN Some(last_variants) ELSE None

get_terminal_word_possibilities(r, word, edit_distance) ==
    LET range == GetPrefixRange(r, word)
        found_prefix == range # None
        prefix_variants == IF found_prefix
                           THEN <<Prefix(range.val[1], range.val[2])>> ELSE <<>>
        last_fuzzy_results == IF CanFuzzyMatch(word)
                              THEN FuzzyMapLookup(r, word, edit_distance) ELSE <<>>
        Kept(result) == ~(found_prefix /\ result.edit_distance = 0)
        kept == SelectSeq(last_fuzzy_results, Kept)
        last_variants == prefix_variants \o
                         [k \in 1..Len(kept) |-> Full(kept[k].id, kept[k].edit_distance)]
    IN  IF Len(last_variants) > 0 THEN Some(last_variants) ELSE None

(***************************************************************************)
(* The phrase composer (PhraseSet::match_combinations and its two          *)
(* siblings, modelled from the design document): a depth-first walk of the *)
(* phrase automaton over the variants of each slot, under the cap D on the *)
(* accumulated edit distance.  A walk yields pairs <<path, flag>>, path    *)
(* being the query words chosen per slot.                                  *)
(***************************************************************************)
\* what the walk emits on reaching the automaton node `ids` at level k of n
Emitted(c, path, ids) ==
    LET k == Len(path)
        n == Len(c.V)
        final == ids \in c.r.phrase_set
    IN  IF c.mode = "exact" THEN (IF k = n /\ final THEN << <<path, FALSE>> >> ELSE <<>>)
        ELSE IF c.mode = "prefixes" THEN (IF k = n THEN << <<path, TRUE>> >> ELSE <<>>)
        ELSE IF k = n /\ c.ends_in_prefix THEN << <<path, TRUE>> >>
        ELSE IF final THEN << <<path, FALSE>> >>
        ELSE <<>>

RECURSIVE WalkFrom(_, _, _, _, _)
WalkFrom(c, so_far, ids, d_acc, j) ==
    LET k == Len(so_far) + 1
    IN  IF j > Len(c.V[k]) THEN <<>>
        ELSE LET qw == c.V[k][j]
                 path == Append(so_far, qw)
                 next == Steps(c.r, ids, qw)
                 here ==
                    IF next = {} THEN <<>>
                    ELSE IF qw.tag = "Prefix" THEN << <<path, TRUE>> >>
                    ELSE IF d_acc + qw.edit_distance > c.D THEN <<>>
                    ELSE LET node == CHOOSE x \in next : TRUE
                         IN  Emitted(c, path, node) \o
                             (IF k < Len(c.V)
                              THEN WalkFrom(c, path, node, d_acc + qw.edit_distance, 1)
                              ELSE <<>>)
             IN  here \o WalkFrom(c, so_far, ids, d_acc, j + 1)

\* duplicates are dropped, the first occurrence stays
RECURSIVE Dedup(_)
Dedup(s) ==
    IF s = <<>> THEN <<>>
    ELSE LET front == Dedup(SubSeq(s, 1, Len(s) - 1))
         IN  IF s[Len(s)] \in Range(front) THEN front ELSE Append(front, s[Len(s)])

\* a Prefix query word is legal in the last slot only, and never in an exact walk
ShapeOk(V, prefix_allowed) ==
    \A k \in 1..Len(V) : \A j \in 1..Len(V[k]) :
        V[k][j].tag = "Prefix" => (prefix_allowed /\ k = Len(V))

Err(what) == [status |-> "err", error |-> what]

Walk(r, V, D, mode, ends_in_prefix) ==
    IF V = <<>> THEN <<>>
    ELSE Dedup(WalkFrom([r |-> r, V |-> V, D |-> D, mode |-> mode,
                         ends_in_prefix |-> ends_in_prefix], <<>>, <<>>, 0, 1))

Paths(found) == [k \in 1..Len(found) |-> found[k][1]]

match_combinations(r, V, D) ==
    IF ~ShapeOk(V, FALSE) THEN Err("QueryShape")
    ELSE Ok(Paths(Walk(r, V, D, "exact", FALSE)))

match_combinations_as_prefixes(r, V, D) ==
    IF ~ShapeOk(V, TRUE) THEN Err("QueryShape")
    ELSE Ok(Paths(Walk(r, V, D, "prefixes", TRUE)))

match_combinations_as_windows(r, V, D, ends_in_prefix) ==
    IF ~ShapeOk(V, ends_in_prefix) THEN Err("QueryShape")
    ELSE Ok(Walk(r, V, D, "windows", ends_in_prefix))

(***************************************************************************)
(* FuzzyPhraseSet::fuzzy_match, fuzzy_match_prefix                         *)
(***************************************************************************)
\* no clamp: the caller's bound as it is
Min2NoClamp(a, b) == a

Min2(a, b) == IF a <= b THEN a ELSE b

\* Iterator<u8>::sum: the sum in 8-bit arithmetic
RECURSIVE SumU8(_)
SumU8(ds) ==
    IF ds = <<>> THEN 0
    ELSE (SumU8(SubSeq(ds, 1, Len(ds) - 1)) + ds[Len(ds)]) % 256

\* the edit distance a query word adds: Prefix adds 0
WordDistance(qw) == IF qw.tag = "Full" THEN qw.edit_distance ELSE 0

\* a distance that counts the slots
PathLength(path) == Len(path)

PathDistance(path) == SumU8([k \in 1..Len(path) |-> WordDistance(path[k])])

\* the lazy map over the slots: Some(word_possibilities), or None as soon as
\* one word has no possibilities
RECURSIVE ResolveAll(_, _, _)
ResolveAll(r, words, edit_distance) ==
    IF words = <<>> THEN Some(<<>>)
    ELSE LET matches == get_nonterminal_word_possibilities(r, words[1], edit_distance)
         IN  IF matches = None THEN None
             ELSE LET rest == ResolveAll(r, Tail(words), edit_distance)
                  IN  IF rest = None THEN None ELSE Some(<<matches.val>> \o rest.val)

\* a query's answer: the results, and with them the paths they were made of
Answer(results, matched) == [status |-> "ok", value |-> results, matched |-> matched]

Panic(what) == [status |-> "panic", error |-> what]

fuzzy_match(r, phrase, max_word_dist, max_phrase_dist) ==
    LET edit_distance == Min2(max_word_dist, 1)
        word_possibilities == ResolveAll(r, phrase, edit_distance)
    IN  IF word_possibilities = None THEN Answer(<<>>, <<>>)
        ELSE LET phrase_matches == match_combinations(r, word_possibilities.val, max_phrase_dist)
             IN  IF phrase_matches.status = "err" THEN phrase_matches
                 ELSE IF \E k \in 1..Len(phrase_matches.value) :
                            \E i \in 1..Len(phrase_matches.value[k]) :
                               phrase_matches.value[k][i].tag # "Full"
                 THEN Panic("prefixes not allowed")
                 ELSE Answer(
                        [k \in 1..Len(phrase_matches.value) |->
                            LET phrase_p == phrase_matches.value[k]
                            IN  [phrase |-> [i \in 1..Len(phrase_p) |-> r.word_list[phrase_p[i].id + 1]],
                                 edit_distance |-> PathDistance(phrase_p)]],
                        phrase_matches.value)

fuzzy_match_prefix(r, phrase, max_word_dist, max_phrase_dist) ==
    IF Len(phrase) = 0 THEN Answer(<<>>, <<>>)
    ELSE
    LET edit_distance == Min2(max_word_dist, 1)
        last_idx == Len(phrase)
        front == ResolveAll(r, SubSeq(phrase, 1, last_idx - 1), edit_distance)
        last == get_terminal_word_possibilities(r, phrase[last_idx], edit_distance)
    IN  IF front = None THEN Answer(<<>>, <<>>)
        ELSE IF last = None THEN Answer(<<>>, <<>>)
        ELSE LET word_possibilities == Append(front.val, last.val)
                 phrase_matches == match_combinations_as_prefixes(r, word_possibilities, max_phrase_dist)
             IN  IF phrase_matches.status = "err" THEN phrase_matches
                 ELSE Answer(
                        [k \in 1..Len(phrase_matches.value) |->
                            LET phrase_p == phrase_matches.value[k]
                            IN  [phrase |-> [i \in 1..Len(phrase_p) |->
                                                IF phrase_p[i].tag = "Full"
                                                THEN r.word_list[phrase_p[i].id + 1]
                                                ELSE phrase[i]],
                                 edit_distance |-> PathDistance(phrase_p)]],
                        phrase_matches.value)

\* a map that is not lazy: every word is resolved
WordsResolvedEager(r, words, edit_distance) == words

\* the words the lazy map hands to get_nonterminal_word_possibilities: the
\* loop returns at the first word without possibilities
RECURSIVE WordsResolved(_, _, _)
WordsResolved(r, words, edit_distance) ==
    IF words = <<>> THEN <<>>
    ELSE IF get_nonterminal_word_possibilities(r, words[1], edit_distance) = None
    THEN <<words[1]>>
    ELSE <<words[1]>> \o WordsResolved(r, Tail(words), edit_distance)

NonterminalLookups(r, words, edit_distance) ==
    LET tried == WordsResolved(r, words, edit_distance)
    IN  [k \in 1..Len(tried) |-> Lookup("get_nonterminal_word_possibilities", tried[k])]

fuzzy_match_trace(r, phrase, max_word_dist, max_phrase_dist) ==
    LET edit_distance == Min2(max_word_dist, 1)
        word_possibilities == ResolveAll(r, phrase, edit_distance)
    IN  [lookups |-> NonterminalLookups(r, phrase, edit_distance),
         walks |-> IF word_possibilities = None THEN <<>>
                   ELSE << PhraseSetCall("match_combinations", word_possibilities.val,
                                         max_phrase_dist, FALSE) >>]

fuzzy_match_prefix_trace(r, phrase, max_word_dist, max_phrase_dist) ==
    IF Len(phrase) = 0 THEN NoTrace
    ELSE
    LET edit_distance == Min2(max_word_dist, 1)
        last_idx == Len(phrase)
        front == ResolveAll(r, SubSeq(phrase, 1, last_idx - 1), edit_distance)
        last == get_terminal_word_possibilities(r, phrase[last_idx], edit_distance)
        front_lookups == NonterminalLookups(r, SubSeq(phrase, 1, last_idx - 1), edit_distance)
    IN  IF front = None THEN [lookups |-> front_lookups, walks |-> <<>>]
        ELSE [lookups |-> Append(front_lookups,
                             Lookup("get_terminal_word_possibilities", phrase[last_idx])),
              walks |-> IF last = None THEN <<>>
                        ELSE << PhraseSetCall("match_combinations_as_prefixes",
                                   Append(front.val, last.val), max_phrase_dist, TRUE) >>]

(***************************************************************************)
(* FuzzyPhraseSet::fuzzy_match_windows                                     *)
(***************************************************************************)
\* seq: the possibilities of each word in turn, the last word resolved as a
\* terminal one when the phrase ends in a prefix
SlotPossibilities(r, phrase, edit_distance, ends_in_prefix) ==
    [k \in 1..Len(phrase) |->
        IF ends_in_prefix /\ k = Len(phrase)
        THEN get_terminal_word_possibilities(r, phrase[k], edit_distance)
        ELSE get_nonterminal_word_possibilities(r, phrase[k], edit_distance)]

NewSubquery == [start_position |-> 0, ends_in_prefix |-> FALSE, word_possibilities |-> <<>>]

\* a loop that closes a subquery at the end of the input only
RECURSIVE SubqueriesNoCut(_, _, _, _, _)
SubqueriesNoCut(seq, ends_in_prefix, i, sq, subqueries) ==
    IF i > Len(seq) THEN subqueries
    ELSE LET matches == IF i < Len(seq) THEN seq[i + 1] ELSE None
         IN  IF matches # None
             THEN SubqueriesNoCut(seq, ends_in_prefix, i + 1,
                     [sq EXCEPT !.word_possibilities = Append(@, matches.val),
                                !.start_position = IF Len(sq.word_possibilities) = 0
                                                   THEN i ELSE @],
                     subqueries)
             ELSE IF Len(sq.word_possibilities) > 0 /\ i = Len(seq)
             THEN Append(subqueries, [sq EXCEPT !.ends_in_prefix = ends_in_prefix])
             ELSE SubqueriesNoCut(seq, ends_in_prefix, i + 1, sq, subqueries)

\* a loop that hands the caller's ends_in_prefix to every subquery
RECURSIVE SubqueriesAllPrefix(_, _, _, _, _)
SubqueriesAllPrefix(seq, ends_in_prefix, i, sq, subqueries) ==
    IF i > Len(seq) THEN subqueries
    ELSE LET matches == IF i < Len(seq) THEN seq[i + 1] ELSE None
         IN  IF matches # None
             THEN SubqueriesAllPrefix(seq, ends_in_prefix, i + 1,
                     [sq EXCEPT !.word_possibilities = Append(@, matches.val),
                                !.start_position = IF Len(sq.word_possibilities) = 0
                                                   THEN i ELSE @],
                     subqueries)
             ELSE IF Len(sq.word_possibilities) > 0
             THEN SubqueriesAllPrefix(seq, ends_in_prefix, i + 1, NewSubquery,
                     Append(subqueries, [sq EXCEPT !.ends_in_prefix = ends_in_prefix]))
             ELSE SubqueriesAllPrefix(seq, ends_in_prefix, i + 1, sq, subqueries)

\* the loop over seq chained with one closing None; i counts from 0
RECURSIVE Subqueries(_, _, _, _, _)
Subqueries(seq, ends_in_prefix, i, sq, subqueries) ==
    IF i > Len(seq) THEN subqueries
    ELSE LET matches == IF i < Len(seq) THEN seq[i + 1] ELSE None
         IN  IF matches # None
             THEN Subqueries(seq, ends_in_prefix, i + 1,
                     [sq EXCEPT !.word_possibilities = Append(@, matches.val),
                                !.start_position = IF Len(sq.word_possibilities) = 0
                                                   THEN i ELSE @],
                     subqueries)
             ELSE IF Len(sq.word_possibilities) > 0
             THEN Subqueries(seq, ends_in_prefix, i + 1, NewSubquery,
                     Append(subqueries,
                        [sq EXCEPT !.ends_in_prefix = (i = Len(seq) /\ ends_in_prefix)]))
             ELSE Subqueries(seq, ends_in_prefix, i + 1, sq, subqueries)

\* the string reported for slot s (from 0) of a match found in a chunk: the
\* closure indexes the input by the chunk's start and the slot
WindowWord(r, phrase, chunk, s, qw) ==
    IF qw.tag = "Full" THEN r.word_list[qw.id + 1]
    ELSE phrase[chunk.start_position + s + 1]

\* the walk of one chunk from the start i only
ChunkWindowsOneStart(r, phrase, max_phrase_dist, chunk, i) ==
    LET phrase_matches == match_combinations_as_windows(r,
            SubSeq(chunk.word_possibilities, i + 1, Len(chunk.word_possibilities)),
            max_phrase_dist, chunk.ends_in_prefix)
    IN  IF phrase_matches.status # "ok" THEN phrase_matches
        ELSE Answer(
               [k \in 1..Len(phrase_matches.value) |->
                   LET phrase_p == phrase_matches.value[k][1]
                   IN  [phrase |-> [j \in 1..Len(phrase_p) |->
                                       WindowWord(r, phrase, chunk, j - 1, phrase_p[j])],
                        edit_distance |-> PathDistance(phrase_p),
                        start_position |-> chunk.start_position + i,
                        ends_in_prefix |-> phrase_matches.value[k][2]]],
               Paths(phrase_matches.value))

\* the walks of one chunk from its start i on: the results and their paths
RECURSIVE ChunkWindows(_, _, _, _, _)
ChunkWindows(r, phrase, max_phrase_dist, chunk, i) ==
    IF i >= Len(chunk.word_possibilities) THEN Answer(<<>>, <<>>)
    ELSE LET phrase_matches == match_combinations_as_windows(r,
                 SubSeq(chunk.word_possibilities, i + 1, Len(chunk.word_possibilities)),
                 max_phrase_dist, chunk.ends_in_prefix)
             rest == ChunkWindows(r, phrase, max_phrase_dist, chunk, i + 1)
         IN  IF phrase_matches.status # "ok" THEN phrase_matches
             ELSE IF rest.status # "ok" THEN rest
             ELSE Answer(
                    [k \in 1..Len(phrase_matches.value) |->
                        LET phrase_p == phrase_matches.value[k][1]
                        IN  [phrase |-> [j \in 1..Len(phrase_p) |->
                                            WindowWord(r, phrase, chunk, j - 1, phrase_p[j])],
                             edit_distance |-> PathDistance(phrase_p),
                             start_position |-> chunk.start_position + i,
                             ends_in_prefix |-> phrase_matches.value[k][2]]] \o rest.value,
                    Paths(phrase_matches.value) \o rest.matched)

RECURSIVE AllChunks(_, _, _, _)
AllChunks(r, phrase, max_phrase_dist, subqueries) ==
    IF subqueries = <<>> THEN Answer(<<>>, <<>>)
    ELSE LET first == ChunkWindows(r, phrase, max_phrase_dist, subqueries[1], 0)
             rest == AllChunks(r, phrase, max_phrase_dist, Tail(subqueries))
         IN  IF first.status # "ok" THEN first
             ELSE IF rest.status # "ok" THEN rest
             ELSE Answer(first.value \o rest.value, first.matched \o rest.matched)

fuzzy_match_windows(r, phrase, max_word_dist, max_phrase_dist, ends_in_prefix) ==
    IF Len(phrase) = 0 THEN Answer(<<>>, <<>>)
    ELSE LET edit_distance == Min2(max_word_dist, 1)
             seq == SlotPossibilities(r, phrase, edit_distance, ends_in_prefix)
             subqueries == Subqueries(seq, ends_in_prefix, 0, NewSubquery, <<>>)
         IN  AllChunks(r, phrase, max_phrase_dist, subqueries)

\* the walks of one chunk: one from each of its start words on
ChunkWalkCalls(max_phrase_dist, chunk) ==
    [i \in 1..Len(chunk.word_possibilities) |->
        PhraseSetCall("match_combinations_as_windows",
            SubSeq(chunk.word_possibilities, i, Len(chunk.word_possibilities)),
            max_phrase_dist, chunk.ends_in_prefix)]

RECURSIVE AllChunkWalkCalls(_, _)
AllChunkWalkCalls(max_phrase_dist, subqueries) ==
    IF subqueries = <<>> THEN <<>>
    ELSE ChunkWalkCalls(max_phrase_dist, subqueries[1])
            \o AllChunkWalkCalls(max_phrase_dist, Tail(subqueries))

\* every slot is resolved, the loop over seq runs to its end
fuzzy_match_windows_trace(r, phrase, max_word_dist, max_phrase_dist, ends_in_prefix) ==
    IF Len(phrase) = 0 THEN NoTrace
    ELSE LET edit_distance == Min2(max_word_dist, 1)
             seq == SlotPossibilities(r, phrase, edit_distance, ends_in_prefix)
             subqueries == Subqueries(seq, ends_in_prefix, 0, NewSubquery, <<>>)
         IN  [lookups |-> [k \in 1..Len(phrase) |->
                             IF ends_in_prefix /\ k = Len(phrase)
                             THEN Lookup("get_terminal_word_possibilities", phrase[k])
                             ELSE Lookup("get_nonterminal_word_possibilities", phrase[k])],
              walks |-> AllChunkWalkCalls(max_phrase_dist, subqueries)]

(***************************************************************************)
(* FuzzyPhraseSet::fuzzy_match_multi.  A query is a pair <<phrase,          *)
(* ends_in_prefix>>; input indices count from 0 as in the code.            *)
(***************************************************************************)
\* a first loop that enters every word as a non-terminal one
WordKeysNonterminal(query) ==
    { <<query[1][k], FALSE>> : k \in 1..Len(query[1]) }

\* the keys the first loop enters into all_words for one query
WordKeys(query) ==
    LET phrase == query[1]
    IN  IF query[2]
        THEN { <<phrase[k], FALSE>> : k \in 1..(Len(phrase) - 1) }
                \cup { <<phrase[Len(phrase)], TRUE>> }
        ELSE { <<phrase[k], FALSE>> : k \in 1..Len(phrase) }

\* all_words once the first loop is through: each key resolved, None stored
\* as the empty vector
AllWords(r, queries, edit_distance) ==
    [key \in UNION { WordKeys(queries[i]) : i \in 1..Len(queries) } |->
        LET got == IF key[2]
                   THEN get_terminal_word_possibilities(r, key[1], edit_distance)
                   ELSE get_nonterminal_word_possibilities(r, key[1], edit_distance)
        IN  IF got = None THEN <<>> ELSE got.val]

\* Ord of &[T] with T a string: lexicographic, the words in string order
PhraseLess(p, q) ==
    \E k \in 1..Len(q) :
        /\ \A j \in 1..(k - 1) : j <= Len(p) /\ p[j] = q[j]
        /\ (k > Len(p) \/ LexLess(p[k], q[k]))

\* Ord of the tuples (phrase, ends_in_prefix, index)
IndexedLess(x, y) ==
    \/ PhraseLess(x[1], y[1])
    \/ /\ x[1] = y[1]
       /\ \/ (~x[2] /\ y[2])
          \/ (x[2] = y[2] /\ x[3] < y[3])

RECURSIVE InsertIndexed(_, _)
InsertIndexed(s, x) ==
    IF s = <<>> THEN <<x>>
    ELSE IF IndexedLess(x, s[1]) THEN <<x>> \o s
    ELSE <<s[1]>> \o InsertIndexed(Tail(s), x)

RECURSIVE SortIndexed(_)
SortIndexed(s) ==
    IF s = <<>> THEN <<>>
    ELSE InsertIndexed(SortIndexed(SubSeq(s, 1, Len(s) - 1)), s[Len(s)])

IndexedPhrases(queries) ==
    SortIndexed([i \in 1..Len(queries) |-> <<queries[i][1], queries[i][2], i - 1>>])

\* the loop that forms the clusters: the entries <<longest_idx, group>> of
\* `collapsed`, in the order the loop inserts them
RECURSIVE Collapse(_, _, _)
Collapse(indexed_phrases, n, group) ==
    IF n > Len(indexed_phrases) THEN <<>>
    ELSE LET item == indexed_phrases[n]
             group2 == Append(group, item[3])
             done_with_group ==
                IF n = Len(indexed_phrases) THEN TRUE
                ELSE LET peek == indexed_phrases[n + 1]
                     IN  \/ item[2]
                         \/ Len(peek[1]) <= Len(item[1])
                         \/ SubSeq(peek[1], 1, Len(item[1])) # item[1]
         IN  IF done_with_group
             THEN << <<item[3], group2>> >> \o Collapse(indexed_phrases, n + 1, <<>>)
             ELSE Collapse(indexed_phrases, n + 1, group2)

Collapsed(queries) == Collapse(IndexedPhrases(queries), 1, <<>>)

\* a length_map collected from all the queries of the call
LengthMapOfAll(queries, all_idxes) ==
    LET KeyOf(idx) == <<Len(queries[idx + 1][1]), queries[idx + 1][2]>>
    IN  [key \in { KeyOf(i - 1) : i \in 1..Len(queries) } |->
            Max({ i - 1 : i \in { j \in 1..Len(queries) : KeyOf(j - 1) = key } })]

\* length_map, collected from the members of a cluster: a later member
\* replaces an earlier one under the same key
LengthMap(queries, all_idxes) ==
    LET KeyOf(idx) == <<Len(queries[idx + 1][1]), queries[idx + 1][2]>>
    IN  [key \in { KeyOf(all_idxes[m]) : m \in 1..Len(all_idxes) } |->
            all_idxes[Max({ m \in 1..Len(all_idxes) : KeyOf(all_idxes[m]) = key })]]

\* every result of the walk goes to the longest member, whatever its length
RECURSIVE DemultiplexToLongest(_, _, _, _, _)
DemultiplexToLongest(r, queries, length_map, phrase_matches, out) ==
    IF phrase_matches = <<>> THEN out
    ELSE LET phrase_p == phrase_matches[1][1]
             longest == CHOOSE key \in DOMAIN length_map :
                           \A other \in DOMAIN length_map : other[1] <= key[1]
             input_idx == length_map[longest]
             result == [phrase |-> [i \in 1..Len(phrase_p) |->
                                       IF phrase_p[i].tag = "Full"
                                       THEN r.word_list[phrase_p[i].id + 1]
                                       ELSE queries[input_idx + 1][1][i]],
                        edit_distance |-> PathDistance(phrase_p)]
         IN  DemultiplexToLongest(r, queries, length_map, Tail(phrase_matches),
                [out EXCEPT !.value[input_idx + 1] = Append(@, result),
                            !.matched[input_idx + 1] = Append(@, phrase_p)])

\* the results one walk adds to the output: those whose length and
\* prefix-ness are a member's, under that member's index
RECURSIVE Demultiplex(_, _, _, _, _)
Demultiplex(r, queries, length_map, phrase_matches, out) ==
    IF phrase_matches = <<>> THEN out
    ELSE LET phrase_p == phrase_matches[1][1]
             key == <<Len(phrase_p), phrase_matches[1][2]>>
             out2 ==
                IF key \in DOMAIN length_map
                THEN LET input_idx == length_map[key]
                         input_phrase == queries[input_idx + 1][1]
                         result == [phrase |-> [i \in 1..Len(phrase_p) |->
                                                   IF phrase_p[i].tag = "Full"
                                                   THEN r.word_list[phrase_p[i].id + 1]
                                                   ELSE input_phrase[i]],
                                    edit_distance |-> PathDistance(phrase_p)]
                     IN  [out EXCEPT !.value[input_idx + 1] = Append(@, result),
                                     !.matched[input_idx + 1] = Append(@, phrase_p)]
                ELSE out
         IN  Demultiplex(r, queries, length_map, Tail(phrase_matches), out2)

\* the loop over `collapsed`, visited in the order `order` (a permutation of
\* its entries: a HashMap iterates in no particular order)
RECURSIVE ClusterWalks(_, _, _, _, _, _, _, _)
ClusterWalks(r, queries, all_words, max_phrase_dist, collapsed, order, n, out) ==
    IF n > Len(order) THEN out
    ELSE LET longest_idx == collapsed[order[n]][1]
             all_idxes == collapsed[order[n]][2]
             longest_phrase == queries[longest_idx + 1][1]
             ends_in_prefix == queries[longest_idx + 1][2]
             keys == [k \in 1..Len(longest_phrase) |->
                        <<longest_phrase[k], k = Len(longest_phrase) /\ ends_in_prefix>>]
         IN  IF Len(longest_phrase) = 0
             THEN ClusterWalks(r, queries, all_words, max_phrase_dist, collapsed, order, n + 1, out)
             ELSE IF \E k \in 1..Len(keys) : keys[k] \notin DOMAIN all_words
             THEN Err("Can't find corrected word")
             ELSE LET word_possibilities == [k \in 1..Len(keys) |-> all_words[keys[k]]]
                      phrase_matches == match_combinations_as_windows(r,
                          word_possibilities, max_phrase_dist, ends_in_prefix)
                  IN  IF phrase_matches.status # "ok" THEN phrase_matches
                      ELSE ClusterWalks(r, queries, all_words, max_phrase_dist, collapsed,
                              order, n + 1,
                              Demultiplex(r, queries, LengthMap(queries, all_idxes),
                                          phrase_matches.value, out))

fuzzy_match_multi(r, queries, max_word_dist, max_phrase_dist, order) ==
    IF Len(queries) = 0 THEN Answer(<<>>, <<>>)
    ELSE IF \E i \in 1..Len(queries) : queries[i][2] /\ Len(queries[i][1]) = 0
    THEN Panic("phrase.len() - 1")
    ELSE LET edit_distance == Min2(max_word_dist, 1)
         IN  ClusterWalks(r, queries, AllWords(r, queries, edit_distance),
                          max_phrase_dist, Collapsed(queries), order, 1,
                          Answer([i \in 1..Len(queries) |-> <<>>],
                                 [i \in 1..Len(queries) |-> <<>>]))

\* the key of each word of a query, in the order the first loop takes them
KeySeq(query) ==
    [k \in 1..Len(query[1]) |-> <<query[1][k], query[2] /\ k = Len(query[1])>>]

\* the resolutions the first loop makes, query i and word k onwards: a key
\* is resolved when its entry in all_words is vacant; the loop ends where
\* phrase.len() - 1 of an empty phrase aborts the call
RECURSIVE MultiLookups(_, _, _, _)
MultiLookups(queries, i, k, seen) ==
    IF i > Len(queries) THEN <<>>
    ELSE IF queries[i][2] /\ Len(queries[i][1]) = 0 THEN <<>>
    ELSE IF k > Len(queries[i][1]) THEN MultiLookups(queries, i + 1, 1, seen)
    ELSE LET key == KeySeq(queries[i])[k]
         IN  IF key \in seen THEN MultiLookups(queries, i, k + 1, seen)
             ELSE << Lookup(IF key[2] THEN "get_terminal_word_possibilities"
                            ELSE "get_nonterminal_word_possibilities", key[1]) >>
                  \o MultiLookups(queries, i, k + 1, seen \cup {key})

\* the walks of the loop over `collapsed`, visited in the order `order`
RECURSIVE MultiWalks(_, _, _, _, _, _, _)
MultiWalks(r, queries, all_words, max_phrase_dist, collapsed, order, n) ==
    IF n > Len(order) THEN <<>>
    ELSE LET longest_idx == collapsed[order[n]][1]
             longest_phrase == queries[longest_idx + 1][1]
             ends_in_prefix == queries[longest_idx + 1][2]
             keys == KeySeq(queries[longest_idx + 1])
             rest == MultiWalks(r, queries, all_words, max_phrase_dist, collapsed, order, n + 1)
         IN  IF Len(longest_phrase) = 0 THEN rest
             ELSE IF \E k \in 1..Len(keys) : keys[k] \notin DOMAIN all_words THEN <<>>
             ELSE LET word_possibilities == [k \in 1..Len(keys) |-> all_words[keys[k]]]
                      made == << PhraseSetCall("match_combinations_as_windows",
                                    word_possibilities, max_phrase_dist, ends_in_prefix) >>
                  IN  IF match_combinations_as_windows(r, word_possibilities,
                            max_phrase_dist, ends_in_prefix).status # "ok"
                      THEN made
                      ELSE made \o rest

fuzzy_match_multi_trace(r, queries, max_word_dist, max_phrase_dist, order) ==
    IF Len(queries) = 0 THEN NoTrace
    ELSE LET edit_distance == Min2(max_word_dist, 1)
             lookups == MultiLookups(queries, 1, 1, {})
         IN  IF \E i \in 1..Len(queries) : queries[i][2] /\ Len(queries[i][1]) = 0
             THEN [lookups |-> lookups, walks |-> <<>>]
             ELSE [lookups |-> lookups,
                   walks |-> MultiWalks(r, queries, AllWords(r, queries, edit_distance),
                                        max_phrase_dist, Collapsed(queries), order, 1)]

Query(op, phrase, queries, w, d, eip) ==
    [op |-> op, phrase |-> phrase, queries |-> queries,
     max_word_dist |-> w, max_phrase_dist |-> d, ends_in_prefix |-> eip]

Contains(phrase) ==
    /\ pc = "open"
    /\ call' = Query("contains", phrase, <<>>, 0, 0, FALSE)
    /\ ret' = contains(reader, phrase)
    /\ trace' = contains_trace(reader, phrase)
    /\ pc' = "answered"
    /\ UNCHANGED <<phrases, words_to_tmpids, inserted, disk, reader, threads>>

ContainsPrefix(phrase) ==
    /\ pc = "open"
    /\ call' = Query("contains_prefix", phrase, <<>>, 0, 0, TRUE)
    /\ ret' = contains_prefix(reader, phrase)
    /\ trace' = contains_prefix_trace(reader, phrase)
    /\ pc' = "answered"
    /\ UNCHANGED <<phrases, words_to_tmpids, inserted, disk, reader, threads>>

Dists == 0..MaxDist

FuzzyMatch(phrase, w, d) ==
    /\ pc = "open"
    /\ call' = Query("fuzzy_match", phrase, <<>>, w, d, FALSE)
    /\ ret' = fuzzy_match(reader, phrase, w, d)
    /\ trace' = fuzzy_match_trace(reader, phrase, w, d)
    /\ pc' = "answered"
    /\ UNCHANGED <<phrases, words_to_tmpids, inserted, disk, reader, threads>>

FuzzyMatchPrefix(phrase, w, d) ==
    /\ pc = "open"
    /\ call' = Query("fuzzy_match_prefix", phrase, <<>>, w, d, TRUE)
    /\ ret' = fuzzy_match_prefix(reader, phrase, w, d)
    /\ trace' = fuzzy_match_prefix_trace(reader, phrase, w, d)
    /\ pc' = "answered"
    /\ UNCHANGED <<phrases, words_to_tmpids, inserted, disk, reader, threads>>

FuzzyMatchWindows(phrase, w, d, ends_in_prefix) ==
    /\ pc = "open"
    /\ call' = Query("fuzzy_match_windows", phrase, <<>>, w, d, ends_in_prefix)
    /\ ret' = fuzzy_match_windows(reader, phrase, w, d, ends_in_prefix)
    /\ trace' = fuzzy_match_windows_trace(reader, phrase, w, d, ends_in_prefix)
    /\ pc' = "answered"
    /\ UNCHANGED <<phrases, words_to_tmpids, inserted, disk, reader, threads>>

QueryInputs == PhraseInputs \X BOOLEAN

QueryLists == SeqsUpTo(QueryInputs, MaxQueries)

FuzzyMatchMulti(queries, w, d) ==
    /\ pc = "open"
    /\ call' = Query("fuzzy_match_multi", <<>>, queries, w, d, FALSE)
    /\ \E order \in Permutations(1..Len(Collapsed(queries))) :
          /\ ret' = fuzzy_match_multi(reader, queries, w, d, order)
          /\ trace' = fuzzy_match_multi_trace(reader, queries, w, d, order)
    /\ pc' = "answered"
    /\ UNCHANGED <<phrases, words_to_tmpids, inserted, disk, reader, threads>>

\* every contiguous sub-sequence of the phrase, as a query that ends in no prefix
RECURSIVE WindowsFrom(_, _, _)
WindowsFrom(phrase, i, j) ==
    IF i > Len(phrase) THEN <<>>
    ELSE IF j > Len(phrase) THEN WindowsFrom(phrase, i + 1, i + 1)
    ELSE << <<SubSeq(phrase, i, j), FALSE>> >> \o WindowsFrom(phrase, i, j + 1)

AllWindows(phrase) == WindowsFrom(phrase, 1, 1)

\* tests::fuzzy_match_windowed_multi_equivalent_test: the windowed search of
\* a phrase next to a multi search, of the phrase itself or of its windows
WindowedMulti(phrase, queries) ==
    /\ pc = "open"
    /\ call' = Query("windowed_multi", phrase, queries, 1, 1, FALSE)
    /\ \E order \in Permutations(1..Len(Collapsed(queries))) :
          /\ ret' = [status |-> "ok",
                     windowed |-> fuzzy_match_windows(reader, phrase, 1, 1, FALSE),
                     multi |-> fuzzy_match_multi(reader, queries, 1, 1, order)]
          /\ trace' = ThenTrace(fuzzy_match_windows_trace(reader, phrase, 1, 1, FALSE),
                                fuzzy_match_multi_trace(reader, queries, 1, 1, order))
    /\ pc' = "answered"
    /\ UNCHANGED <<phrases, words_to_tmpids, inserted, disk, reader, threads>>

\* the threads that share the reader
Threads == 1..MaxThreads

\* a thread and the locals of the query it runs: `at` is its position in the
\* code of the query, `returned` what the call gave back
Idle ==
    [at |-> "idle", op |-> "none", phrase |-> <<>>, queries |-> <<>>, order |-> <<>>,
     all_words |-> << >>, n |-> 0, word_possibilities |-> <<>>,
     results |-> [status |-> "none"], raced |-> FALSE, returned |-> [status |-> "none"]]

NoCall == [op |-> "none"]
NoRet == [status |-> "none"]

Init ==
    /\ phrases = <<>>
    /\ words_to_tmpids = << >>
    /\ inserted = {}
    /\ disk = NoDisk
    /\ reader = NoReader
    /\ pc = "building"
    /\ call = NoCall
    /\ ret = NoRet
    /\ trace = NoTrace
    /\ threads = [t \in Threads |-> Idle]

Build ==
    \/ \E phrase \in PhraseInputs : Insert(phrase)
    \/ Finish
    \/ FromPath

NextContains ==
    \/ Build
    \/ \E phrase \in QueryPhrases : Contains(phrase)
    \/ \E phrase \in QueryPhrases : ContainsPrefix(phrase)

SpecContains == Init /\ [][NextContains]_vars

NextFuzzy ==
    \/ Build
    \/ \E phrase \in QueryPhrases, w \in Dists, d \in Dists : FuzzyMatch(phrase, w, d)
    \/ \E phrase \in QueryPhrases, w \in Dists, d \in Dists : FuzzyMatchPrefix(phrase, w, d)

SpecFuzzy == Init /\ [][NextFuzzy]_vars

NextWindows ==
    \/ Build
    \/ \E phrase \in QueryPhrases, w \in Dists, d \in Dists, ends_in_prefix \in BOOLEAN :
          FuzzyMatchWindows(phrase, w, d, ends_in_prefix)

SpecWindows == Init /\ [][NextWindows]_vars

NextMulti ==
    \/ Build
    \/ \E queries \in QueryLists : FuzzyMatchMulti(queries, 1, 1)

SpecMulti == Init /\ [][NextMulti]_vars

NextQueries ==
    \/ Build
    \/ \E phrase \in QueryPhrases, w \in Dists, d \in Dists : FuzzyMatch(phrase, w, d)
    \/ \E phrase \in QueryPhrases, w \in Dists, d \in Dists : FuzzyMatchPrefix(phrase, w, d)
    \/ \E phrase \in QueryPhrases, w \in Dists, d \in Dists, ends_in_prefix \in BOOLEAN :
          FuzzyMatchWindows(phrase, w, d, ends_in_prefix)
    \/ \E queries \in QueryLists : FuzzyMatchMulti(queries, 1, 1)

SpecQueries == Init /\ [][NextQueries]_vars

NextWindowedMulti ==
    \/ Build
    \/ \E phrase \in QueryPhrases : WindowedMulti(phrase, << <<phrase, FALSE>> >>)
    \/ \E phrase \in QueryPhrases : WindowedMulti(phrase, AllWindows(phrase))

SpecWindowedMulti == Init /\ [][NextWindowedMulti]_vars

\* queries for the clamp of max_word_dist: "bb" is a letter token at more
\* than one edit from every token of the index
ClampTokens == Tokens \cup { <<3, 3>> }

ClampPhrases == SeqsUpTo(ClampTokens, MaxLen)

ClampDists == 1..MaxDist

ClampQueryLists == SeqsUpTo(SeqsUpTo(ClampTokens, 1) \X BOOLEAN, MaxQueries)

NextClamp ==
    \/ Build
    \/ \E phrase \in ClampPhrases, w \in ClampDists, d \in Dists : FuzzyMatch(phrase, w, d)
    \/ \E phrase \in ClampPhrases, w \in ClampDists, d \in Dists : FuzzyMatchPrefix(phrase, w, d)
    \/ \E phrase \in ClampPhrases, w \in ClampDists, d \in Dists, ends_in_prefix \in BOOLEAN :
          FuzzyMatchWindows(phrase, w, d, ends_in_prefix)
    \/ \E queries \in ClampQueryLists, w \in ClampDists, d \in Dists :
          FuzzyMatchMulti(queries, w, d)

SpecClamp == Init /\ [][NextClamp]_vars

\* descriptors a metadata.json may hold: the default one, and one that
\* differs from it in each field
Descriptors ==
    { DefaultMetadata,
      [DefaultMetadata EXCEPT !.index_type = "phrase_set"],
      [DefaultMetadata EXCEPT !.format_version = 2],
      [DefaultMetadata EXCEPT !.fuzzy_enabled_scripts = <<"Latin">>] }

\* the paths from_path may be handed, next to the directory the builder
\* wrote: no such path, a file, and the directory with artifacts missing or
\* with another descriptor
Directories(d) ==
    LET absent == [Written(NoDisk) EXCEPT !.kind = "absent"]
        file == [Written(NoDisk) EXCEPT !.kind = "file"]
        written == Written(d)
    IN  { absent, file, written } \cup
        IF written.metadata = None THEN {}
        ELSE { [written EXCEPT !.metadata = metadata,
                               !.prefix_fst = IF has_prefix THEN @ ELSE None,
                               !.phrase_fst = IF has_phrase THEN @ ELSE None] :
                 metadata \in { None } \cup { Some(m) : m \in Descriptors },
                 has_prefix \in BOOLEAN, has_phrase \in BOOLEAN }

\* FuzzyPhraseSet::from_path on any path: the reader, or an error and no reader
OpenDirectory(directory) ==
    /\ pc \in { "building", "finished" }
    /\ call' = [op |-> "from_path", directory |-> directory]
    /\ ret' = from_path(directory)
    /\ IF from_path(directory).status = "ok"
       THEN reader' = from_path(directory).value /\ pc' = "open"
       ELSE reader' = reader /\ pc' = "failed"
    /\ UNCHANGED <<phrases, words_to_tmpids, inserted, disk, trace, threads>>

NextOpen ==
    \/ \E phrase \in PhraseInputs : Insert(phrase)
    \/ Finish
    \/ \E directory \in Directories(disk) : OpenDirectory(directory)

SpecOpen == Init /\ [][NextOpen]_vars

\* the two word resolvers, called on one word
ResolverDists == { 0, 1 }

ResolveNonterminal(word, edit_distance) ==
    /\ pc = "open"
    /\ call' = [op |-> "get_nonterminal_word_possibilities", word |-> word,
                edit_distance |-> edit_distance]
    /\ ret' = Ok(get_nonterminal_word_possibilities(reader, word, edit_distance))
    /\ trace' = [lookups |-> << Lookup("get_nonterminal_word_possibilities", word) >>,
                 walks |-> <<>>]
    /\ pc' = "answered"
    /\ UNCHANGED <<phrases, words_to_tmpids, inserted, disk, reader, threads>>

ResolveTerminal(word, edit_distance) ==
    /\ pc = "open"
    /\ call' = [op |-> "get_terminal_word_possibilities", word |-> word,
                edit_distance |-> edit_distance]
    /\ ret' = Ok(get_terminal_word_possibilities(reader, word, edit_distance))
    /\ trace' = [lookups |-> << Lookup("get_terminal_word_possibilities", word) >>,
                 walks |-> <<>>]
    /\ pc' = "answered"
    /\ UNCHANGED <<phrases, words_to_tmpids, inserted, disk, reader, threads>>

NextResolve ==
    \/ Build
    \/ \E word \in ClampTokens, edit_distance \in ResolverDists :
          ResolveNonterminal(word, edit_distance)
    \/ \E word \in ClampTokens, edit_distance \in ResolverDists :
          ResolveTerminal(word, edit_distance)

SpecResolve == Init /\ [][NextResolve]_vars

(***************************************************************************)
(* Queries on a reader whose fuzzy map or phrase set may fail.  Both       *)
(* fuzzy_map.lookup and the three walks return a Result; a fault names the *)
(* call that returns Err: the n-th word resolution of the query, when it   *)
(* consults the fuzzy map, or the n-th walk.                               *)
(***************************************************************************)
NoFault == [at |-> "none", n |-> 0, error |-> "none"]

Faults ==
    { NoFault } \cup
    { [at |-> "lookup", n |-> n, error |-> "Io"] : n \in 1..MaxLen } \cup
    { [at |-> "walk", n |-> n, error |-> "QueryShape"] : n \in 1..MaxLen }

\* the query lists of the faulty multi search: phrases of one word at most
FaultQueryLists == SeqsUpTo(SeqsUpTo(Tokens, 1) \X BOOLEAN, MaxQueries)

\* both resolvers hand the word to fuzzy_map.lookup when it can be fuzzy
\* matched, and pass its error on with `?`
LookupFails(fault, done) ==
    /\ fault.at = "lookup"
    /\ fault.n <= Len(done.lookups)
    /\ CanFuzzyMatch(done.lookups[fault.n].word)

WalkFails(fault, done) ==
    /\ fault.at = "walk"
    /\ fault.n <= Len(done.walks)

FaultHits(fault, done) == LookupFails(fault, done) \/ WalkFails(fault, done)

\* what the query has done when the fault ends it
TraceUpTo(fault, done) ==
    IF LookupFails(fault, done)
    THEN [lookups |-> SubSeq(done.lookups, 1, fault.n), walks |-> <<>>]
    ELSE IF WalkFails(fault, done)
    THEN [lookups |-> done.lookups, walks |-> SubSeq(done.walks, 1, fault.n)]
    ELSE done

\* fuzzy_match: `matches?` in the loop, `?` on match_combinations
fuzzy_match_faulty(r, phrase, max_word_dist, max_phrase_dist, fault) ==
    LET done == fuzzy_match_trace(r, phrase, max_word_dist, max_phrase_dist)
    IN  IF LookupFails(fault, done) THEN Err(fault.error)
        ELSE IF WalkFails(fault, done) THEN Err(fault.error)
        ELSE fuzzy_match(r, phrase, max_word_dist, max_phrase_dist)

\* fuzzy_match_prefix: `matches?` in the loop, `?` on the terminal resolver
\* and on match_combinations_as_prefixes
fuzzy_match_prefix_faulty(r, phrase, max_word_dist, max_phrase_dist, fault) ==
    LET done == fuzzy_match_prefix_trace(r, phrase, max_word_dist, max_phrase_dist)
    IN  IF LookupFails(fault, done) THEN Err(fault.error)
        ELSE IF WalkFails(fault, done) THEN Err(fault.error)
        ELSE fuzzy_match_prefix(r, phrase, max_word_dist, max_phrase_dist)

\* fuzzy_match_windows: `matches.unwrap()` in the loop over the slots, `?`
\* on match_combinations_as_windows
fuzzy_match_windows_faulty(r, phrase, max_word_dist, max_phrase_dist, ends_in_prefix, fault) ==
    LET done == fuzzy_match_windows_trace(r, phrase, max_word_dist, max_phrase_dist,
                                          ends_in_prefix)
    IN  IF LookupFails(fault, done) THEN Panic("matches.unwrap()")
        ELSE IF WalkFails(fault, done) THEN Err(fault.error)
        ELSE fuzzy_match_windows(r, phrase, max_word_dist, max_phrase_dist, ends_in_prefix)

\* fuzzy_match_multi: `?` on either resolver in the loop over the words, `?`
\* on match_combinations_as_windows
fuzzy_match_multi_faulty(r, queries, max_word_dist, max_phrase_dist, order, fault) ==
    LET done == fuzzy_match_multi_trace(r, queries, max_word_dist, max_phrase_dist, order)
    IN  IF LookupFails(fault, done) THEN Err(fault.error)
        ELSE IF WalkFails(fault, done) THEN Err(fault.error)
        ELSE fuzzy_match_multi(r, queries, max_word_dist, max_phrase_dist, order)

FaultyQuery(op, phrase, queries, eip, fault) ==
    [op |-> op, phrase |-> phrase, queries |-> queries,
     max_word_dist |-> 1, max_phrase_dist |-> 1, ends_in_prefix |-> eip, fault |-> fault]

FuzzyMatchFaulty(phrase, fault) ==
    /\ pc = "open"
    /\ call' = FaultyQuery("fuzzy_match", phrase, <<>>, FALSE, fault)
    /\ ret' = fuzzy_match_faulty(reader, phrase, 1, 1, fault)
    /\ trace' = TraceUpTo(fault, fuzzy_match_trace(reader, phrase, 1, 1))
    /\ pc' = "answered"
    /\ UNCHANGED <<phrases, words_to_tmpids, inserted, disk, reader, threads>>

FuzzyMatchPrefixFaulty(phrase, fault) ==
    /\ pc = "open"
    /\ call' = FaultyQuery("fuzzy_match_prefix", phrase, <<>>, TRUE, fault)
    /\ ret' = fuzzy_match_prefix_faulty(reader, phrase, 1, 1, fault)
    /\ trace' = TraceUpTo(fault, fuzzy_match_prefix_trace(reader, phrase, 1, 1))
    /\ pc' = "answered"
    /\ UNCHANGED <<phrases, words_to_tmpids, inserted, disk, reader, threads>>

FuzzyMatchWindowsFaulty(phrase, ends_in_prefix, fault) ==
    /\ pc = "open"
    /\ call' = FaultyQuery("fuzzy_match_windows", phrase, <<>>, ends_in_prefix, fault)
    /\ ret' = fuzzy_match_windows_faulty(reader, phrase, 1, 1, ends_in_prefix, fault)
    /\ trace' = TraceUpTo(fault, fuzzy_match_windows_trace(reader, phrase, 1, 1, ends_in_prefix))
    /\ pc' = "answered"
    /\ UNCHANGED <<phrases, words_to_tmpids, inserted, disk, reader, threads>>

FuzzyMatchMultiFaulty(queries, fault) ==
    /\ pc = "open"
    /\ call' = FaultyQuery("fuzzy_match_multi", <<>>, queries, FALSE, fault)
    /\ \E order \in Permutations(1..Len(Collapsed(queries))) :
          /\ ret' = fuzzy_match_multi_faulty(reader, queries, 1, 1, order, fault)
          /\ trace' = TraceUpTo(fault, fuzzy_match_multi_trace(reader, queries, 1, 1, order))
    /\ pc' = "answered"
    /\ UNCHANGED <<phrases, words_to_tmpids, inserted, disk, reader, threads>>

NextFaults ==
    \/ Build
    \/ \E phrase \in PhraseInputs, fault \in Faults : FuzzyMatchFaulty(phrase, fault)
    \/ \E phrase \in PhraseInputs, fault \in Faults : FuzzyMatchPrefixFaulty(phrase, fault)
    \/ \E phrase \in PhraseInputs, ends_in_prefix \in BOOLEAN, fault \in Faults :
          FuzzyMatchWindowsFaulty(phrase, ends_in_prefix, fault)
    \/ \E queries \in FaultQueryLists, fault \in Faults : FuzzyMatchMultiFaulty(queries, fault)

SpecFaults == Init /\ [][NextFaults]_vars

(***************************************************************************)
(* Queries in parallel: every query takes &self, so threads may run        *)
(* queries on one reader at once.  A thread runs fuzzy_match or            *)
(* fuzzy_match_multi in steps; between the steps of one thread the others  *)
(* take theirs.                                                            *)
(***************************************************************************)
\* one buffer for all the threads
ScratchShared(t) == 1

\* `let mut word_possibilities` is a local of the call: each thread has its own
Scratch(t) == t

\* another thread stands between filling its word_possibilities and walking
Racing(t) == \E u \in Threads \ {t} : threads[u].at \in { "walk", "match" }

\* lines 604-693: the early return, the resolution of every word, the sort,
\* the clusters, and the empty results and word_possibilities
MultiStart(t, queries) ==
    /\ pc = "open"
    /\ threads[t].at = "idle"
    /\ \E order \in Permutations(1..Len(Collapsed(queries))) :
          LET begun == [Idle EXCEPT !.op = "fuzzy_match_multi", !.queries = queries,
                                    !.order = order]
          IN  threads' =
                IF Len(queries) = 0
                THEN [threads EXCEPT ![t] = [begun EXCEPT !.at = "returned",
                                                          !.returned = Answer(<<>>, <<>>)]]
                ELSE IF \E i \in 1..Len(queries) : queries[i][2] /\ Len(queries[i][1]) = 0
                THEN [threads EXCEPT ![t] = [begun EXCEPT !.at = "returned",
                                                          !.returned = Panic("phrase.len() - 1")]]
                ELSE [threads EXCEPT
                        ![t] = [begun EXCEPT
                                  !.at = "cluster",
                                  !.all_words = AllWords(reader, queries, Min2(1, 1)),
                                  !.n = 1,
                                  !.results = Answer([i \in 1..Len(queries) |-> <<>>],
                                                     [i \in 1..Len(queries) |-> <<>>])],
                        ![Scratch(t)].word_possibilities = <<>>]
    /\ UNCHANGED <<phrases, words_to_tmpids, inserted, disk, reader, pc, call, ret, trace>>

\* lines 694-714: the next cluster; word_possibilities is cleared and filled
\* with the variants of the words of its longest phrase
MultiFill(t) ==
    /\ pc = "open"
    /\ threads[t].at = "cluster"
    /\ threads[t].n <= Len(threads[t].order)
    /\ LET thread == threads[t]
           longest == thread.queries[Collapsed(thread.queries)[thread.order[thread.n]][1] + 1]
           keys == KeySeq(longest)
       IN  threads' =
             IF Len(longest[1]) = 0
             THEN [threads EXCEPT ![t].n = @ + 1]
             ELSE IF \E k \in 1..Len(keys) : keys[k] \notin DOMAIN thread.all_words
             THEN [threads EXCEPT ![t].at = "returned",
                                  ![t].returned = Err("Can't find corrected word")]
             ELSE [threads EXCEPT
                     ![t].at = "walk",
                     ![Scratch(t)].word_possibilities =
                         [k \in 1..Len(keys) |-> thread.all_words[keys[k]]]]
    /\ UNCHANGED <<phrases, words_to_tmpids, inserted, disk, reader, pc, call, ret, trace>>

\* lines 716-746: the walk on word_possibilities, and its results handed to
\* the members of the cluster
MultiWalk(t) ==
    /\ pc = "open"
    /\ threads[t].at = "walk"
    /\ LET thread == threads[t]
           entry == Collapsed(thread.queries)[thread.order[thread.n]]
           ends_in_prefix == thread.queries[entry[1] + 1][2]
           phrase_matches == match_combinations_as_windows(reader,
                                 threads[Scratch(t)].word_possibilities, 1, ends_in_prefix)
       IN  threads' =
             IF phrase_matches.status # "ok"
             THEN [threads EXCEPT ![t].at = "returned", ![t].returned = phrase_matches,
                                  ![t].raced = @ \/ Racing(t)]
             ELSE [threads EXCEPT
                     ![t].at = "cluster",
                     ![t].n = @ + 1,
                     ![t].raced = @ \/ Racing(t),
                     ![t].results = Demultiplex(reader, thread.queries,
                                       LengthMap(thread.queries, entry[2]),
                                       phrase_matches.value, @)]
    /\ UNCHANGED <<phrases, words_to_tmpids, inserted, disk, reader, pc, call, ret, trace>>

\* line 749: Ok(results)
MultiReturn(t) ==
    /\ pc = "open"
    /\ threads[t].at = "cluster"
    /\ threads[t].n > Len(threads[t].order)
    /\ threads' = [threads EXCEPT ![t].at = "returned", ![t].returned = threads[t].results]
    /\ UNCHANGED <<phrases, words_to_tmpids, inserted, disk, reader, pc, call, ret, trace>>

\* fuzzy_match, lines 355-368: the slots resolved into word_possibilities, or
\* the empty answer at the first slot without possibilities
MatchResolve(t, phrase) ==
    /\ pc = "open"
    /\ threads[t].at = "idle"
    /\ LET begun == [Idle EXCEPT !.op = "fuzzy_match", !.phrase = phrase]
           resolved == ResolveAll(reader, phrase, Min2(1, 1))
       IN  threads' =
             IF resolved = None
             THEN [threads EXCEPT ![t] = [begun EXCEPT !.at = "returned",
                                                       !.returned = Answer(<<>>, <<>>)]]
             ELSE [threads EXCEPT ![t] = [begun EXCEPT !.at = "match"],
                                  ![Scratch(t)].word_possibilities = resolved.val]
    /\ UNCHANGED <<phrases, words_to_tmpids, inserted, disk, reader, pc, call, ret, trace>>

\* fuzzy_match, lines 370-386: the walk on word_possibilities and its results
MatchedPhrases(r, word_possibilities, max_phrase_dist) ==
    LET phrase_matches == match_combinations(r, word_possibilities, max_phrase_dist)
    IN  IF phrase_matches.status = "err" THEN phrase_matches
        ELSE IF \E k \in 1..Len(phrase_matches.value) :
                   \E i \in 1..Len(phrase_matches.value[k]) :
                      phrase_matches.value[k][i].tag # "Full"
        THEN Panic("prefixes not allowed")
        ELSE Answer(
               [k \in 1..Len(phrase_matches.value) |->
                   LET phrase_p == phrase_matches.value[k]
                   IN  [phrase |-> [i \in 1..Len(phrase_p) |-> r.word_list[phrase_p[i].id + 1]],
                        edit_distance |-> PathDistance(phrase_p)]],
               phrase_matches.value)

MatchWalk(t) ==
    /\ pc = "open"
    /\ threads[t].at = "match"
    /\ threads' = [threads EXCEPT
                     ![t].at = "returned",
                     ![t].raced = @ \/ Racing(t),
                     ![t].returned = MatchedPhrases(reader,
                                         threads[Scratch(t)].word_possibilities, 1)]
    /\ UNCHANGED <<phrases, words_to_tmpids, inserted, disk, reader, pc, call, ret, trace>>

\* the index and the queries of the parallel runs: phrases of one word, and
\* in the lists "a" and "1" as whole phrases and "ab" as a prefix
ParallelPhrases == { <<word>> : word \in Tokens }

ParallelQueries == { << <<<<2>>>>, FALSE >>, << <<<<1>>>>, FALSE >>, << <<<<2, 3>>>>, TRUE >> }

ParallelQueryLists == SeqsUpTo(ParallelQueries, MaxQueries)

NextParallel ==
    \/ \E phrase \in ParallelPhrases : Insert(phrase)
    \/ Finish
    \/ FromPath
    \/ \E t \in Threads, queries \in ParallelQueryLists : MultiStart(t, queries)
    \/ \E t \in Threads : MultiFill(t)
    \/ \E t \in Threads : MultiWalk(t)
    \/ \E t \in Threads : MultiReturn(t)
    \/ \E t \in Threads, phrase \in ParallelPhrases : MatchResolve(t, phrase)
    \/ \E t \in Threads : MatchWalk(t)

SpecParallel == Init /\ [][NextParallel]_vars

(***************************************************************************)
(* Properties                                                              *)
(***************************************************************************)
Answered(op) == pc = "answered" /\ call.op = op

\* C1: every phrase handed to insert before finish is found by contains and
\* by contains_prefix on the reader opened from the built index.
C1_Containment ==
    ((Answered("contains") \/ Answered("contains_prefix")) /\ call.phrase \in inserted)
        => ret = Ok(TRUE)

\* two phrases went in, the second-inserted one sorting first, and the
\* two-word one is found as a prefix
C1_Witness ==
    /\ Answered("contains_prefix")
    /\ call.phrase \in inserted
    /\ Len(call.phrase) = 2
    /\ call.phrase[1] # call.phrase[2]
    /\ Cardinality(inserted) = 2
    /\ ret = Ok(TRUE)

\* the query is an inserted phrase cut after its k-th word, that word cut to
\* a non-empty string prefix of itself
IsPrefixQuery(query, p) ==
    /\ Len(query) >= 1
    /\ Len(query) <= Len(p)
    /\ SubSeq(query, 1, Len(query) - 1) = SubSeq(p, 1, Len(query) - 1)
    /\ Len(query[Len(query)]) > 0
    /\ StartsWith(p[Len(query)], query[Len(query)])

\* C8: for every inserted phrase t1..tn, every k in 1..n and every non-empty
\* string prefix q of tk, contains_prefix([t1, .., t(k-1), q]) is true.
C8_PrefixSoundness ==
    (Answered("contains_prefix") /\ \E p \in inserted : IsPrefixQuery(call.phrase, p))
        => ret = Ok(TRUE)

\* the last word of the query is no word of the index, only the beginning of
\* one, and the query stops before the end of the inserted phrase
C8_Witness ==
    /\ Answered("contains_prefix")
    /\ \E p \in inserted : IsPrefixQuery(call.phrase, p) /\ Len(call.phrase) < Len(p)
    /\ call.phrase[Len(call.phrase)] \notin Range(reader.word_list)
    /\ ret = Ok(TRUE)

\* C9 as stated: for every inserted phrase p, fuzzy_match(p, 1, 0) holds the
\* result {phrase: p, edit_distance: 0}.
C9_AsStated ==
    (/\ Answered("fuzzy_match")
     /\ call.phrase \in inserted
     /\ call.max_word_dist = 1
     /\ call.max_phrase_dist = 0)
        => /\ ret.status = "ok"
           /\ [phrase |-> call.phrase, edit_distance |-> 0] \in Range(ret.value)

\* C9, amended: for every inserted phrase p of at least one word,
\* fuzzy_match(p, 1, 0) holds the result {phrase: p, edit_distance: 0}.
C9_FuzzyReflexivity ==
    (/\ Answered("fuzzy_match")
     /\ call.phrase \in inserted
     /\ call.phrase # <<>>
     /\ call.max_word_dist = 1
     /\ call.max_phrase_dist = 0)
        => /\ ret.status = "ok"
           /\ [phrase |-> call.phrase, edit_distance |-> 0] \in Range(ret.value)

\* a two-word phrase with a word the fuzzy map does not hold and a word that
\* has a neighbour at distance 1 in the index comes back, alone
C9_Witness ==
    /\ Answered("fuzzy_match")
    /\ call.phrase \in inserted
    /\ Len(call.phrase) = 2
    /\ call.max_word_dist = 1
    /\ call.max_phrase_dist = 0
    /\ ~CanFuzzyMatch(call.phrase[1])
    /\ CanFuzzyMatch(call.phrase[2])
    /\ \E word \in Range(reader.word_list) :
          CanFuzzyMatch(word) /\ EditDistance(word, call.phrase[2]) = 1
    /\ ret.status = "ok"
    /\ ret.value = << [phrase |-> call.phrase, edit_distance |-> 0] >>

RECURSIVE PlainSum(_)
PlainSum(ds) == IF ds = <<>> THEN 0 ELSE ds[1] + PlainSum(Tail(ds))

\* C10: every result of fuzzy_match(q, w, D) has 0 <= edit_distance <= D, and
\* its edit_distance is the sum, not wrapped around, of the distances of the
\* variants matched slot by slot.
C10_DistanceBound ==
    Answered("fuzzy_match") =>
        /\ ret.status = "ok"
        /\ Len(ret.matched) = Len(ret.value)
        /\ \A k \in 1..Len(ret.value) :
            /\ 0 <= ret.value[k].edit_distance
            /\ ret.value[k].edit_distance <= call.max_phrase_dist
            /\ ret.value[k].edit_distance =
                 PlainSum([i \in 1..Len(ret.matched[k]) |-> ret.matched[k][i].edit_distance])

\* a result that uses the whole budget, in a call whose per-word bound is
\* above the clamp, next to a result of distance 0
C10_Witness ==
    /\ Answered("fuzzy_match")
    /\ call.max_word_dist = 2
    /\ call.max_phrase_dist = 1
    /\ Len(call.phrase) = 2
    /\ ret.status = "ok"
    /\ \E k \in 1..Len(ret.value) : ret.value[k].edit_distance = 1
    /\ \E k \in 1..Len(ret.value) : ret.value[k].edit_distance = 0

\* the string a result must show in a slot matched by the query word qw
SlotString(qw, input_token) ==
    IF qw.tag = "Full" THEN reader.word_list[qw.id + 1] ELSE input_token

\* C5: in every result of fuzzy_match_prefix, fuzzy_match_windows and
\* fuzzy_match_multi a slot matched by a Prefix variant shows the caller's
\* input token at the slot's position in the input (for a window: the token
\* at start_position + slot index), a slot matched by a Full variant shows
\* word_list[id].
C5_ReportedWords ==
    /\ (Answered("fuzzy_match_prefix") /\ ret.status = "ok") =>
          \A k \in 1..Len(ret.value) : \A i \in 1..Len(ret.value[k].phrase) :
              ret.value[k].phrase[i] = SlotString(ret.matched[k][i], call.phrase[i])
    /\ (Answered("fuzzy_match_windows") /\ ret.status = "ok") =>
          \A k \in 1..Len(ret.value) : \A i \in 1..Len(ret.value[k].phrase) :
              ret.value[k].phrase[i] =
                  SlotString(ret.matched[k][i], call.phrase[ret.value[k].start_position + i])
    /\ (Answered("fuzzy_match_multi") /\ ret.status = "ok") =>
          \A q \in 1..Len(ret.value) :
              \A k \in 1..Len(ret.value[q]) : \A i \in 1..Len(ret.value[q][k].phrase) :
                  ret.value[q][k].phrase[i] =
                      SlotString(ret.matched[q][k][i], call.queries[q][1][i])

\* the possibilities fuzzy_match_windows finds for the slots of its input
CallSlots ==
    SlotPossibilities(reader, call.phrase, Min2(call.max_word_dist, 1), call.ends_in_prefix)

\* C6: every result of fuzzy_match_windows is a contiguous slice of the input
\* that spans no unmatched slot: start_position + |phrase| <= |input|, and
\* every input slot from start_position on, |phrase| of them, resolved to a
\* list of variants.
C6_WindowsAreSlices ==
    Answered("fuzzy_match_windows") =>
        /\ ret.status = "ok"
        /\ \A k \in 1..Len(ret.value) :
            /\ ret.value[k].start_position + Len(ret.value[k].phrase) <= Len(call.phrase)
            /\ \A slot \in ret.value[k].start_position ..
                           (ret.value[k].start_position + Len(ret.value[k].phrase) - 1) :
                  CallSlots[slot + 1] # None

\* an input whose middle slot resolves to nothing, with a window found on
\* each side of it
C6_Witness ==
    /\ Answered("fuzzy_match_windows")
    /\ Len(call.phrase) = 3
    /\ CallSlots[2] = None
    /\ ret.status = "ok"
    /\ \E k \in 1..Len(ret.value) : ret.value[k].start_position = 0
    /\ \E k \in 1..Len(ret.value) : ret.value[k].start_position = 2

\* the query has no match for want of input or of a word: its phrase is
\* empty, or one of its slots resolves to None
NoMatch(phrase, max_word_dist, ends_in_prefix) ==
    \/ phrase = <<>>
    \/ \E k \in 1..Len(phrase) :
          SlotPossibilities(reader, phrase, Min2(max_word_dist, 1), ends_in_prefix)[k] = None

\* C7: a query without a match is no error and no abort.  In fuzzy_match,
\* fuzzy_match_prefix and fuzzy_match_multi an empty input phrase (whatever
\* ends_in_prefix is) or a slot that resolves to None gives an empty result
\* set (in multi: an empty result slot for that query), returned as a normal
\* value; fuzzy_match_windows, for which a None slot is a barrier between
\* windows, returns normally, with nothing for an empty input.
C7_NoMatchIsEmpty ==
    /\ ((Answered("fuzzy_match") \/ Answered("fuzzy_match_prefix"))
            /\ NoMatch(call.phrase, call.max_word_dist, call.ends_in_prefix))
          => (ret.status = "ok" /\ ret.value = <<>>)
    /\ Answered("fuzzy_match_windows")
          => (ret.status = "ok" /\ (call.phrase = <<>> => ret.value = <<>>))
    /\ Answered("fuzzy_match_multi")
          => /\ ret.status = "ok"
             /\ \A i \in 1..Len(call.queries) :
                   NoMatch(call.queries[i][1], call.max_word_dist, call.queries[i][2])
                       => ret.value[i] = <<>>

\* the two vectors hold the same elements, each as often
SameBag(s, t) ==
    \A x \in Range(s) \cup Range(t) :
        Cardinality({ k \in 1..Len(s) : s[k] = x }) = Cardinality({ k \in 1..Len(t) : t[k] = x })

\* the single query that a query of a multi call stands for
Single(query) ==
    IF query[2] THEN fuzzy_match_prefix(reader, query[1], 1, 1)
    ELSE fuzzy_match(reader, query[1], 1, 1)

\* C2: for every query list Q and every index i, fuzzy_match_multi(Q, 1, 1)[i]
\* is, as a multiset of results, fuzzy_match(Q[i].phrase, 1, 1) when
\* Q[i].ends_in_prefix is false and fuzzy_match_prefix(Q[i].phrase, 1, 1) when
\* it is true, whatever else is in Q.
C2_MultiEqualsSingles ==
    (Answered("fuzzy_match_multi") /\ call.max_word_dist = 1 /\ call.max_phrase_dist = 1)
        => /\ ret.status = "ok"
           /\ Len(ret.value) = Len(call.queries)
           /\ \A i \in 1..Len(call.queries) :
                 SameBag(ret.value[i], Single(call.queries[i]).value)

\* results compared on their phrase and edit_distance fields, as a set
Found(results) ==
    { [phrase |-> results[k].phrase, edit_distance |-> results[k].edit_distance] :
        k \in 1..Len(results) }

BothOk == ret.windowed.status = "ok" /\ ret.multi.status = "ok"

\* C3 as stated: for every token sequence q, fuzzy_match_windows(q, 1, 1,
\* false) and fuzzy_match_multi([(q, false)], 1, 1)[0] give the same set of
\* results, compared on phrase and edit_distance.
C3_AsStated ==
    (Answered("windowed_multi") /\ call.queries = << <<call.phrase, FALSE>> >>)
        => /\ BothOk
           /\ Found(ret.windowed.value) = Found(ret.multi.value[1])

\* the windows that start at position 0 and span the whole input
WholeInput(results, phrase) ==
    SelectSeq(results, LAMBDA res : res.start_position = 0 /\ Len(res.phrase) = Len(phrase))

\* C3, amended: for every token sequence q, fuzzy_match_multi([(q, false)],
\* 1, 1)[0] gives the same set of results, compared on phrase and
\* edit_distance, as those results of fuzzy_match_windows(q, 1, 1, false)
\* that start at position 0 and span all of q.
C3_MultiIsWholeWindow ==
    (Answered("windowed_multi") /\ call.queries = << <<call.phrase, FALSE>> >>)
        => /\ BothOk
           /\ Found(WholeInput(ret.windowed.value, call.phrase)) = Found(ret.multi.value[1])

\* the whole input of two words matches, and so does a shorter window of it
\* that the multi search does not report
C3_Witness ==
    /\ Answered("windowed_multi")
    /\ call.queries = << <<call.phrase, FALSE>> >>
    /\ Len(call.phrase) = 2
    /\ BothOk
    /\ ret.multi.value[1] # <<>>
    /\ Found(ret.windowed.value) # Found(ret.multi.value[1])

RECURSIVE Concat(_)
Concat(ss) == IF ss = <<>> THEN <<>> ELSE ss[1] \o Concat(Tail(ss))

\* C4: for every token sequence q, the results of fuzzy_match_windows(q, 1,
\* 1, false), as a set of (phrase, edit_distance), are the union of the
\* result slots of fuzzy_match_multi over all contiguous sub-sequences of q,
\* each with ends_in_prefix = false.
C4_WindowsEqualMultiOfWindows ==
    (Answered("windowed_multi") /\ call.queries = AllWindows(call.phrase))
        => /\ BothOk
           /\ Found(ret.windowed.value) = Found(Concat(ret.multi.value))

\* an input of three words: windows of one and of two words are found past
\* its start, one of them with an edit, and nothing for the whole input
C4_Witness ==
    /\ Answered("windowed_multi")
    /\ call.queries = AllWindows(call.phrase)
    /\ Len(call.phrase) = 3
    /\ BothOk
    /\ \E k \in 1..Len(ret.windowed.value) : ret.windowed.value[k].start_position = 1
    /\ \E k \in 1..Len(ret.windowed.value) : Len(ret.windowed.value[k].phrase) = 2
    /\ \E k \in 1..Len(ret.windowed.value) : ret.windowed.value[k].edit_distance = 1
    /\ ret.multi.value[1] # <<>>
    /\ ret.multi.value[3] = <<>>

\* the token dictionary holds the word
Indexed(word) == word \in Range(reader.prefix_set)

\* some word of the token dictionary begins with the token
HasPrefixRange(token) == \E word \in Range(reader.prefix_set) : StartsWith(word, token)

\* C11: when a token of a contains query is absent from the token
\* dictionary, contains returns false and the phrase set is not consulted in
\* that call; the same for contains_prefix when a token before the last is
\* absent or the last token has no prefix range.
C11_MissingToken ==
    /\ (Answered("contains") /\ \E k \in 1..Len(call.phrase) : ~Indexed(call.phrase[k]))
          => (ret = Ok(FALSE) /\ trace.walks = <<>>)
    /\ (/\ Answered("contains_prefix")
        /\ \/ \E k \in 1..(Len(call.phrase) - 1) : ~Indexed(call.phrase[k])
           \/ (Len(call.phrase) > 0 /\ ~HasPrefixRange(call.phrase[Len(call.phrase)])))
          => (ret = Ok(FALSE) /\ trace.walks = <<>>)

\* a contains query of three words over a non-empty index, the first word
\* indexed and the second not: the third is not even looked up
C11_Witness ==
    /\ Answered("contains")
    /\ Len(call.phrase) = 3
    /\ Indexed(call.phrase[1])
    /\ ~Indexed(call.phrase[2])
    /\ reader.phrase_set # {}
    /\ Len(trace.lookups) = 2
    /\ ret = Ok(FALSE)
    /\ trace.walks = <<>>

\* the orders in which a call may come to visit its clusters
ClusterOrders == Permutations(1..Len(Collapsed(call.queries)))

\* C12: a query made again on the same reader with the same arguments gives
\* the same result lists in the same order; for fuzzy_match_multi, in
\* whatever order a run visits the clusters.
C12_Determinism ==
    /\ Answered("fuzzy_match") =>
          ret = fuzzy_match(reader, call.phrase, call.max_word_dist, call.max_phrase_dist)
    /\ Answered("fuzzy_match_prefix") =>
          ret = fuzzy_match_prefix(reader, call.phrase, call.max_word_dist, call.max_phrase_dist)
    /\ Answered("fuzzy_match_windows") =>
          ret = fuzzy_match_windows(reader, call.phrase, call.max_word_dist,
                                    call.max_phrase_dist, call.ends_in_prefix)
    /\ Answered("fuzzy_match_multi") =>
          \A order \in ClusterOrders :
              ret = fuzzy_match_multi(reader, call.queries, call.max_word_dist,
                                      call.max_phrase_dist, order)

\* a multi query of two clusters, each with a result of its own
C12_Witness ==
    /\ Answered("fuzzy_match_multi")
    /\ Len(Collapsed(call.queries)) = 2
    /\ ret.status = "ok"
    /\ ret.value[1] # <<>>
    /\ ret.value[2] # <<>>
    /\ ret.value[1] # ret.value[2]

\* C13: max_word_dist is clamped to 1: with any max_word_dist >= 1 each of
\* fuzzy_match, fuzzy_match_prefix, fuzzy_match_windows and fuzzy_match_multi
\* gives what it gives with max_word_dist = 1, and returns no error.
C13_WordDistanceClamp ==
    /\ (Answered("fuzzy_match") /\ call.max_word_dist >= 1) =>
          /\ ret.status # "err"
          /\ ret = fuzzy_match(reader, call.phrase, 1, call.max_phrase_dist)
    /\ (Answered("fuzzy_match_prefix") /\ call.max_word_dist >= 1) =>
          /\ ret.status # "err"
          /\ ret = fuzzy_match_prefix(reader, call.phrase, 1, call.max_phrase_dist)
    /\ (Answered("fuzzy_match_windows") /\ call.max_word_dist >= 1) =>
          /\ ret.status # "err"
          /\ ret = fuzzy_match_windows(reader, call.phrase, 1, call.max_phrase_dist,
                                       call.ends_in_prefix)
    /\ (Answered("fuzzy_match_multi") /\ call.max_word_dist >= 1) =>
          /\ ret.status # "err"
          /\ \A order \in ClusterOrders :
                ret = fuzzy_match_multi(reader, call.queries, 1, call.max_phrase_dist, order)

\* a call with max_word_dist = 2 and room in max_phrase_dist for two edits:
\* the first word comes back at one edit, while the last word, a letter word
\* two edits from a letter word of the index and one edit from none, closes
\* the window
C13_Witness ==
    /\ Answered("fuzzy_match_windows")
    /\ call.max_word_dist = 2
    /\ call.max_phrase_dist = 2
    /\ Len(call.phrase) = 2
    /\ CanFuzzyMatch(call.phrase[2])
    /\ \E word \in Range(reader.word_list) :
          /\ CanFuzzyMatch(word)
          /\ EditDistance(call.phrase[2], word) = 2
    /\ ~\E word \in Range(reader.word_list) : EditDistance(call.phrase[2], word) < 2
    /\ ret.status = "ok"
    /\ Len(ret.value) = 1
    /\ ret.value[1].edit_distance = 1
    /\ trace.walks = << PhraseSetCall("match_combinations_as_windows",
                           trace.walks[1].V, 2, FALSE) >>

\* C14: whatever was inserted, the same phrase more than once included,
\* finish hands no phrase twice to the phrase-set builder, and the phrases it
\* hands over ascend by id sequence.
C14_NoDuplicatesAscending ==
    pc # "building" =>
        /\ \A k, j \in 1..Len(disk.phrase_fst) :
              k # j => disk.phrase_fst[k] # disk.phrase_fst[j]
        /\ \A k \in 1..(Len(disk.phrase_fst) - 1) :
              ~LexLess(disk.phrase_fst[k + 1], disk.phrase_fst[k])

\* the word an insert() gave the temporary id to
WordOfTmpid(map, tmpid) == CHOOSE word \in DOMAIN map : map[word] = tmpid

\* the phrases the builder holds, each slot as the word that was inserted there
Decoded(map, ps) ==
    [k \in 1..Len(ps) |-> [j \in 1..Len(ps[k]) |-> WordOfTmpid(map, ps[k][j])]]

\* the final id of a word: its place in the stream handed to the prefix set
FinalId(words, word) == (CHOOSE i \in 1..Len(words) : words[i] = word) - 1

\* what C15 asks of one step: while building, the table gives each distinct
\* word one temporary id and the phrases held are the phrases inserted; at
\* finish, each distinct word gets one final id, the ids are 0..|V|-1 in
\* byte-wise string order, and the phrases emitted are the phrases held with
\* each slot carrying the final id of the word inserted there
IdsStep ==
    /\ pc' = "building" =>
          /\ \A a, b \in DOMAIN words_to_tmpids' :
                words_to_tmpids'[a] = words_to_tmpids'[b] => a = b
          /\ Range(Decoded(words_to_tmpids', phrases')) = inserted'
    /\ (pc = "building" /\ pc' = "finished") =>
          LET V == UNION { Range(p) : p \in inserted }
              words == disk'.prefix_fst
              held == Decoded(words_to_tmpids, phrases)
          IN  /\ Range(words) = V
              /\ Len(words) = Cardinality(V)
              /\ \A i, j \in 1..Len(words) : (i < j) <=> LexLess(words[i], words[j])
              /\ \A entry \in disk'.fuzzy : words[entry[2] + 1] = entry[1]
              /\ SameBag(disk'.phrase_fst,
                         [k \in 1..Len(held) |->
                             [j \in 1..Len(held[k]) |-> FinalId(words, held[k][j])]])

\* C15: after any sequence of inserts, finish gives each distinct token
\* exactly one final id, the final ids are exactly 0..|V|-1, token a has a
\* smaller id than token b iff a sorts before b in byte-wise string order,
\* and every phrase is renumbered so that each slot carries the final id of
\* the token inserted at that slot.
C15_LexicographicIds == [][IdsStep]_vars

\* finish has run on two phrases of three distinct words, each with its
\* first word sorting after its second: the word that got temporary id 0 is
\* not the smallest
C15_Witness ==
    /\ pc = "finished"
    /\ Len(disk.prefix_fst) = 3
    /\ Len(disk.phrase_fst) = 2
    /\ Cardinality(inserted) = 2
    /\ \A p \in inserted : Len(p) = 2 /\ LexLess(p[2], p[1])

\* C16: from_path returns an error and constructs no reader when the
\* directory is absent or no directory (NotFound), when the descriptor read
\* from metadata.json differs in a field from the default one (InvalidData),
\* and when prefix.fst or phrase.fst is missing (NotFound); the kind is that
\* of the first of these checks to fail.  It returns a reader only when all
\* of them pass.
C16_FromPathErrors ==
    call.op = "from_path" =>
        LET directory == call.directory
            no_directory == directory.kind # "dir"
            other_descriptor == /\ directory.metadata # None
                                /\ directory.metadata.val # DefaultMetadata
            default_descriptor == directory.metadata = Some(DefaultMetadata)
            fst_missing == directory.prefix_fst = None \/ directory.phrase_fst = None
        IN  /\ no_directory => ret = Failed("NotFound")
            /\ (~no_directory /\ other_descriptor) => ret = Failed("InvalidData")
            /\ (~no_directory /\ default_descriptor /\ fst_missing) => ret = Failed("NotFound")
            /\ (no_directory \/ other_descriptor \/ fst_missing) =>
                  (ret.status = "err" /\ reader = NoReader /\ pc = "failed")
            /\ ret.status = "ok" =>
                  /\ ~no_directory /\ default_descriptor /\ ~fst_missing
                  /\ reader = ret.value
                  /\ pc = "open"

\* the directory of a built index of two phrases, all artifacts in place,
\* with a descriptor of another format_version: no reader
C16_Witness ==
    /\ call.op = "from_path"
    /\ Cardinality(inserted) = 2
    /\ call.directory.kind = "dir"
    /\ call.directory.prefix_fst # None
    /\ call.directory.phrase_fst # None
    /\ call.directory.metadata # None
    /\ call.directory.metadata.val.format_version = 2
    /\ ret = Failed("InvalidData")
    /\ reader = NoReader

IsPrefix(qw) == qw.tag = "Prefix"

IsFull(qw) == qw.tag = "Full"

IsEdited(hit) == hit.edit_distance > 0

AsFull(hits) == [k \in 1..Len(hits) |-> Full(hits[k].id, hits[k].edit_distance)]

\* C17: get_terminal_word_possibilities never returns a list with both a
\* Prefix variant and a Full variant of edit_distance 0; when a prefix range
\* is found the list is one Prefix and the fuzzy hits of distance > 0, when
\* none is found it is all the fuzzy hits, those of distance 0 included; and
\* it returns None exactly when the list would be empty.
C17_TerminalResolution ==
    Answered("get_terminal_word_possibilities") =>
        LET word == call.word
            hits == IF CanFuzzyMatch(word)
                    THEN FuzzyMapLookup(reader, word, call.edit_distance) ELSE <<>>
            found == HasPrefixRange(word)
            list == IF ret.value = None THEN <<>> ELSE ret.value.val
        IN  /\ ~(/\ \E k \in 1..Len(list) : IsPrefix(list[k])
                 /\ \E k \in 1..Len(list) : IsFull(list[k]) /\ list[k].edit_distance = 0)
            /\ found =>
                  /\ Len(SelectSeq(list, IsPrefix)) = 1
                  /\ SelectSeq(list, IsPrefix)[1] =
                        Prefix(GetPrefixRange(reader, word).val[1],
                               GetPrefixRange(reader, word).val[2])
                  /\ SameBag(SelectSeq(list, IsFull), AsFull(SelectSeq(hits, IsEdited)))
            /\ ~found =>
                  /\ SelectSeq(list, IsPrefix) = <<>>
                  /\ SameBag(list, AsFull(hits))
            /\ (ret.value = None) <=> (~found /\ hits = <<>>)
            /\ ret.value # None => ret.value.val # <<>>

\* the word is in the index as a word, as the beginning of a longer word,
\* and one edit from that longer word: the list is the Prefix and the longer
\* word, the exact hit left out
C17_Witness ==
    /\ Answered("get_terminal_word_possibilities")
    /\ call.edit_distance = 1
    /\ Indexed(call.word)
    /\ Len(FuzzyMapLookup(reader, call.word, 1)) = 2
    /\ ret.value # None
    /\ Len(ret.value.val) = 2
    /\ IsPrefix(ret.value.val[1])
    /\ ret.value.val[1].lo < ret.value.val[1].hi
    /\ IsFull(ret.value.val[2])
    /\ ret.value.val[2].edit_distance = 1

\* the end e of the maximal run [s, e) of resolved slots that holds slot i
\* (slots count from 0)
RECURSIVE RunEnd(_, _)
RunEnd(slots, i) ==
    IF i >= Len(slots) THEN Len(slots)
    ELSE IF slots[i + 1] = None THEN i
    ELSE RunEnd(slots, i + 1)

\* one walk for each start i of each maximal run [s, e): on the variant lists
\* of the slots i..e-1, with ends_in_prefix iff the caller's is true and the
\* run holds the last token
RECURSIVE RunWalks(_, _, _, _)
RunWalks(slots, max_phrase_dist, ends_in_prefix, i) ==
    IF i >= Len(slots) THEN <<>>
    ELSE IF slots[i + 1] = None
    THEN RunWalks(slots, max_phrase_dist, ends_in_prefix, i + 1)
    ELSE LET e == RunEnd(slots, i)
         IN  << PhraseSetCall("match_combinations_as_windows",
                    [k \in 1..(e - i) |-> slots[i + k].val],
                    max_phrase_dist,
                    ends_in_prefix /\ e = Len(slots)) >>
             \o RunWalks(slots, max_phrase_dist, ends_in_prefix, i + 1)

\* C18: fuzzy_match_windows cuts the input into the maximal runs of resolved
\* slots and makes, for each run [s, e) and each start i in it, exactly one
\* match_combinations_as_windows walk, on the variant lists of the slots
\* i..e-1, with ends_in_prefix = true iff the caller's ends_in_prefix is true
\* and the run holds the last input token; so no result has ends_in_prefix =
\* true when the caller passed false or when its window lies in a run that
\* ends before the last token.
C18_WalksPerRun ==
    Answered("fuzzy_match_windows") =>
        /\ SameBag(trace.walks,
                   RunWalks(CallSlots, call.max_phrase_dist, call.ends_in_prefix, 0))
        /\ ret.status = "ok"
        /\ \A k \in 1..Len(ret.value) :
              ret.value[k].ends_in_prefix =>
                  /\ call.ends_in_prefix
                  /\ RunEnd(CallSlots, ret.value[k].start_position) = Len(call.phrase)

\* three tokens, the caller's ends_in_prefix true, the first slot unresolved:
\* the run of the last two slots is walked from each of its two starts, with
\* ends_in_prefix true, and a window that ends in a prefix is found
C18_Witness ==
    /\ Answered("fuzzy_match_windows")
    /\ call.ends_in_prefix
    /\ Len(call.phrase) = 3
    /\ CallSlots[1] = None
    /\ Len(trace.walks) = 2
    /\ Len(trace.walks[1].V) = 2
    /\ Len(trace.walks[2].V) = 1
    /\ trace.walks[1].ends_in_prefix
    /\ trace.walks[2].ends_in_prefix
    /\ \E k \in 1..Len(ret.value) :
          ret.value[k].ends_in_prefix /\ Len(ret.value[k].phrase) = 2

\* p is q cut short: shorter, and equal to q slot by slot as far as it goes
StrictPrefix(p, q) == Len(p) < Len(q) /\ SubSeq(q, 1, Len(p)) = p

\* a word's resolution as fuzzy_match_multi keeps it: None as the empty list
Resolution(key, edit_distance) ==
    LET got == IF key[2]
               THEN get_terminal_word_possibilities(reader, key[1], edit_distance)
               ELSE get_nonterminal_word_possibilities(reader, key[1], edit_distance)
    IN  IF got = None THEN <<>> ELSE got.val

\* one walk for each cluster whose longest phrase is not empty: on the
\* variant lists of the longest member, with its ends_in_prefix
RECURSIVE ClusterWalkCalls(_, _, _, _, _)
ClusterWalkCalls(queries, clusters, edit_distance, max_phrase_dist, n) ==
    IF n > Len(clusters) THEN <<>>
    ELSE LET group == clusters[n][2]
             longest == queries[group[Len(group)] + 1]
             rest == ClusterWalkCalls(queries, clusters, edit_distance, max_phrase_dist, n + 1)
         IN  IF longest[1] = <<>> THEN rest
             ELSE << PhraseSetCall("match_combinations_as_windows",
                        [k \in 1..Len(longest[1]) |->
                            Resolution(KeySeq(longest)[k], edit_distance)],
                        max_phrase_dist, longest[2]) >> \o rest

\* C19: fuzzy_match_multi partitions the queries into clusters: every input
\* index is in exactly one cluster; in a cluster each member is a strict
\* positional prefix of the next, and none but the longest has ends_in_prefix
\* = true; and exactly one match_combinations_as_windows walk is made for
\* each cluster whose longest phrase is not empty, on the variant lists of
\* the longest member, with the longest member's ends_in_prefix.
C19_Clusters ==
    Answered("fuzzy_match_multi") =>
        LET queries == call.queries
            clusters == Collapsed(queries)
        IN  /\ \A idx \in 0..(Len(queries) - 1) :
                  Cardinality({ <<c, m>> \in (1..Len(clusters)) \X (1..Len(queries)) :
                                   m <= Len(clusters[c][2]) /\ clusters[c][2][m] = idx }) = 1
            /\ \A c \in 1..Len(clusters) :
                  LET group == clusters[c][2]
                  IN  /\ Len(group) >= 1
                      /\ clusters[c][1] = group[Len(group)]
                      /\ \A m \in 1..(Len(group) - 1) :
                            /\ StrictPrefix(queries[group[m] + 1][1], queries[group[m + 1] + 1][1])
                            /\ ~queries[group[m] + 1][2]
            /\ SameBag(trace.walks,
                       ClusterWalkCalls(queries, clusters, Min2(call.max_word_dist, 1),
                                        call.max_phrase_dist, 1))

\* the distinct keys (token, is in prefix position) of the queries of the call
CallKeys == UNION { Range(KeySeq(call.queries[i])) : i \in 1..Len(call.queries) }

KeyLookup(key) ==
    Lookup(IF key[2] THEN "get_terminal_word_possibilities"
           ELSE "get_nonterminal_word_possibilities", key[1])

\* C20: in one fuzzy_match_multi call the resolver (nonterminal, or terminal
\* for a token in prefix position) is called exactly once for each distinct
\* key (token, is in prefix position) of the queries, also when the first
\* resolution found nothing, and a key that resolves to None is kept as the
\* empty list, as the walks are handed it.
C20_ResolveOncePerKey ==
    Answered("fuzzy_match_multi") =>
        /\ \A key \in CallKeys :
              Cardinality({ k \in 1..Len(trace.lookups) : trace.lookups[k] = KeyLookup(key) }) = 1
        /\ Len(trace.lookups) = Cardinality(CallKeys)
        /\ \A n \in 1..Len(trace.walks) : \A k \in 1..Len(trace.walks[n].V) :
              trace.walks[n].V[k] \in
                  { Resolution(key, Min2(call.max_word_dist, 1)) : key \in CallKeys }

\* the resolver fuzzy_match / fuzzy_match_prefix applies to slot k of the
\* query that was made, and what it returns
SlotResolver(k) ==
    IF call.op = "fuzzy_match_prefix" /\ k = Len(call.phrase)
    THEN "get_terminal_word_possibilities"
    ELSE "get_nonterminal_word_possibilities"

SlotResolution(k) ==
    Resolution(<<call.phrase[k], SlotResolver(k) = "get_terminal_word_possibilities">>,
               IF call.max_word_dist <= 1 THEN call.max_word_dist ELSE 1)

\* the first slot that resolves to None; 0 when every slot resolves
FirstNone ==
    LET none == { k \in 1..Len(call.phrase) : SlotResolution(k) = <<>> }
    IN  IF none = {} THEN 0 ELSE Min(none)

\* C21: fuzzy_match and fuzzy_match_prefix resolve the slots in input order,
\* the last slot of fuzzy_match_prefix with the terminal resolver, and stop
\* at the first slot that resolves to None: no later slot is resolved, the
\* phrase set is not consulted, and the result is empty.
C21_LazyResolution ==
    (Answered("fuzzy_match") \/ Answered("fuzzy_match_prefix")) =>
        LET resolved == IF FirstNone = 0 THEN Len(call.phrase) ELSE FirstNone
        IN  /\ trace.lookups = [k \in 1..resolved |-> Lookup(SlotResolver(k), call.phrase[k])]
            /\ FirstNone # 0 => /\ trace.walks = <<>>
                                /\ ret.status = "ok"
                                /\ ret.value = <<>>

\* a fuzzy_match whose first slot resolves, whose second does not, and which
\* has a third
C21_Witness ==
    /\ Answered("fuzzy_match")
    /\ FirstNone = 2
    /\ Len(call.phrase) = 3
    /\ Len(trace.lookups) = 2
    /\ ret.value = <<>>

\* the fault of the query that was made has struck: the resolution or the
\* walk it names was reached and returned Err
FaultStruck ==
    /\ pc = "answered"
    /\ call.op \in { "fuzzy_match", "fuzzy_match_prefix", "fuzzy_match_windows",
                     "fuzzy_match_multi" }
    /\ \/ /\ call.fault.at = "lookup"
          /\ Len(trace.lookups) = call.fault.n
          /\ CanFuzzyMatch(trace.lookups[call.fault.n].word)
       \/ /\ call.fault.at = "walk"
          /\ Len(trace.walks) = call.fault.n

\* C22: when a word resolution (its fuzzy-map lookup) or a phrase-set walk
\* fails with an error, fuzzy_match, fuzzy_match_prefix, fuzzy_match_windows
\* and fuzzy_match_multi return that error as an Err value and do not abort.
C22_ErrorsAreReturned ==
    FaultStruck => ret = Err(call.fault.error)

\* what the query of thread t returns when it runs alone on the reader
Alone(t) ==
    IF threads[t].op = "fuzzy_match_multi"
    THEN fuzzy_match_multi(reader, threads[t].queries, 1, 1, threads[t].order)
    ELSE fuzzy_match(reader, threads[t].phrase, 1, 1)

\* a step of a query leaves the reader as it is and writes the locals of
\* one thread at most
ParallelStep ==
    /\ pc = "open" => reader' = reader
    /\ Cardinality({ t \in Threads : threads'[t] # threads[t] }) <= 1

ReturnsAsAlone ==
    \A t \in Threads : threads[t].at = "returned" => threads[t].returned = Alone(t)

\* C23: no query modifies the reader (prefix_set, phrase_set, fuzzy_map,
\* word_list; script_regex is the fixed CanFuzzyMatch); a step of a query
\* writes only the locals of that query; and in every interleaving of the
\* steps of parallel queries on one reader each query returns what it
\* returns when it runs alone.
C23_ReaderIsImmutable == [][ParallelStep]_vars /\ []ReturnsAsAlone

\* a fuzzy_match_multi that walked while another query stood between filling
\* its own word_possibilities and walking, with other variants in it, and
\* that returned matches
C23_Witness ==
    \E t \in Threads, u \in Threads :
        /\ t # u
        /\ threads[t].op = "fuzzy_match_multi"
        /\ threads[t].at = "returned"
        /\ threads[t].raced
        /\ threads[t].returned.status = "ok"
        /\ \E i \in 1..Len(threads[t].returned.value) : threads[t].returned.value[i] # <<>>
        /\ threads[u].at \in { "walk", "match", "returned" }
        /\ threads[u].word_possibilities # <<>>
        /\ threads[u].word_possibilities # threads[t].word_possibilities

\* the keys looked up in all_words for a cluster: (word, false) for each word
\* of its longest phrase but the last, (last word, ends_in_prefix) for the last
AssemblyKeys(entry) ==
    LET longest == call.queries[entry[1] + 1]
    IN  { <<longest[1][k], k = Len(longest[1]) /\ longest[2]>> : k \in 1..Len(longest[1]) }

\* C24: in fuzzy_match_multi every lookup in all_words that assembles the
\* variant lists of a cluster finds its key: for each cluster with a
\* non-empty longest phrase the table holds (word, false) for every word but
\* the last and (last word, ends_in_prefix of the longest) for the last, so
\* no call returns the error "Can't find corrected word".
C24_TableHoldsEveryKey ==
    Answered("fuzzy_match_multi") =>
        /\ ret # Err("Can't find corrected word")
        /\ ret.status # "panic" =>
              \A n \in 1..Len(Collapsed(call.queries)) :
                 \A key \in AssemblyKeys(Collapsed(call.queries)[n]) :
                    /\ key \in DOMAIN AllWords(reader, call.queries,
                                               Min2(call.max_word_dist, 1))
                    /\ KeyLookup(key) \in Range(trace.lookups)

\* a cluster of two members, the longer one of two words and ending in a
\* prefix, whose variant lists were assembled and walked with a match
C24_Witness ==
    /\ Answered("fuzzy_match_multi")
    /\ ret.status = "ok"
    /\ \E n \in 1..Len(Collapsed(call.queries)) :
          LET entry == Collapsed(call.queries)[n]
              longest == call.queries[entry[1] + 1]
          IN  /\ Len(entry[2]) = 2
              /\ Len(longest[1]) = 2
              /\ longest[2]
              /\ <<longest[1][2], TRUE>> \in AssemblyKeys(entry)
              /\ <<longest[1][2], FALSE>> \notin CallKeys
              /\ ret.value[entry[1] + 1] # <<>>
====
